---- MODULE Spec2Model ----
(***************************************************************************)
(* A model of the GeoPose conversion core (geopose-lib / gepose-transforms *)
(* and the Cesium serialization wrapper).                                  *)
(*                                                                         *)
(* The TypeScript sources compute on the JavaScript Number type, i.e. on   *)
(* IEEE-754 binary64 values.  Several properties of the code depend on the *)
(* rounding of that arithmetic (cos of the double nearest to pi/2 is not   *)
(* zero, N + h cancels exactly on the polar axis, products overflow to     *)
(* Infinity), so numbers are modelled as binary64 values: a sign, a 53-bit *)
(* mantissa held as a multi-limb natural, and a binary exponent, with the  *)
(* special values NaN and +-Infinity.  + - * / and sqrt round to nearest,  *)
(* ties to even, as IEEE-754 requires; sin, cos, atan2, asin and acos are  *)
(* evaluated on a 120-bit fixed-point grid and rounded once.               *)
(***************************************************************************)
EXTENDS Integers, Sequences, FiniteSets, TLC

----------------------------------------------------------------------------
(* Multi-limb naturals: little-endian sequences of limbs in 0..Base-1 with  *)
(* no most-significant zero limb; <<>> is zero.                             *)

RECURSIVE Call(_, _)

LimbBits == 15
Base == 32768

Limb(a, i) == IF i >= 1 /\ i <= Len(a) THEN a[i] ELSE 0

\* e, with v evaluated first.  TLC binds LET definitions and operator arguments
\* lazily; evaluating an intermediate value before it is passed on keeps the
\* evaluation of a long chain of dependent values shallow.
Then(v, e) == IF v = v THEN e ELSE e

Max2(a, b) == IF a >= b THEN a ELSE b
Min2(a, b) == IF a <= b THEN a ELSE b

\* the function f on 1..n as a sequence value
Tup(f) == f \o <<>>

RECURSIVE BTrim(_)
BTrim(a) ==
  IF Len(a) = 0 THEN <<>>
  ELSE IF a[Len(a)] = 0 THEN BTrim(SubSeq(a, 1, Len(a) - 1))
  ELSE a

BFromInt(v) ==
  IF v = 0 THEN <<>>
  ELSE IF v < Base THEN <<v>>
  ELSE IF v < Base * Base THEN <<v % Base, v \div Base>>
  ELSE <<v % Base, (v \div Base) % Base, v \div (Base * Base)>>

\* value of a natural known to fit an Int (at most two limbs)
BToInt(a) == Limb(a, 1) + Base * Limb(a, 2)

RECURSIVE BCmpFrom(_, _, _)
BCmpFrom(a, b, i) ==
  IF i = 0 THEN 0
  ELSE IF a[i] < b[i] THEN -1
  ELSE IF a[i] > b[i] THEN 1
  ELSE BCmpFrom(a, b, i - 1)

\* -1, 0 or 1 as a < b, a = b, a > b
BCmp(a, b) ==
  IF Len(a) < Len(b) THEN -1
  ELSE IF Len(a) > Len(b) THEN 1
  ELSE BCmpFrom(a, b, Len(a))

RECURSIVE BCarry(_, _, _)
\* the carry into limb i of a + b: it is decided by the nearest lower limb
\* whose sum is not Base - 1
BCarry(a, b, i) ==
  IF i = 1 THEN 0
  ELSE LET s == Limb(a, i - 1) + Limb(b, i - 1)
       IN IF s >= Base THEN 1
          ELSE IF s < Base - 1 THEN 0
          ELSE BCarry(a, b, i - 1)

BAdd(a, b) ==
  BTrim(Tup([i \in 1..(Max2(Len(a), Len(b)) + 1) |->
               (Limb(a, i) + Limb(b, i) + BCarry(a, b, i)) % Base]))

RECURSIVE BBorrow(_, _, _)
\* the borrow from limb i of a - b
BBorrow(a, b, i) ==
  IF i = 1 THEN 0
  ELSE LET d == Limb(a, i - 1) - Limb(b, i - 1)
       IN IF d < 0 THEN 1
          ELSE IF d > 0 THEN 0
          ELSE BBorrow(a, b, i - 1)

\* a - b for a >= b
BSub(a, b) ==
  BTrim(Tup([i \in 1..Len(a) |->
               (Limb(a, i) - Limb(b, i) - BBorrow(a, b, i) + Base) % Base]))

\* a * d for a limb d
BMulSmall(a, d) ==
  IF d = 0 THEN <<>>
  ELSE BAdd(Tup([i \in 1..Len(a) |-> (a[i] * d) % Base]),
            <<0>> \o Tup([i \in 1..Len(a) |-> (a[i] * d) \div Base]))

RECURSIVE ColSum(_, _, _, _, _, _)
\* the sum over i in lo..hi of the low limb (high = FALSE) or the high limb
\* (high = TRUE) of a[i] * b[k - i]
ColSum(a, b, k, lo, hi, high) ==
  IF lo > hi THEN 0
  ELSE IF lo = hi
       THEN (IF high THEN (a[lo] * b[k - lo]) \div Base ELSE (a[lo] * b[k - lo]) % Base)
  ELSE ColSum(a, b, k, lo, (lo + hi) \div 2, high)
       + ColSum(a, b, k, (lo + hi) \div 2 + 1, hi, high)

\* what the limb products leave in limb p of a * b, before carries
Column(a, b, p) ==
  ColSum(a, b, p + 1, Max2(1, p + 1 - Len(b)), Min2(Len(a), p), FALSE)
  + ColSum(a, b, p, Max2(1, p - Len(b)), Min2(Len(a), p - 1), TRUE)

BMul(a, b) ==
  IF Len(a) = 0 \/ Len(b) = 0 THEN <<>>
  ELSE LET D == Tup([p \in 1..(Len(a) + Len(b)) |-> Column(a, b, p)])
       IN BAdd(Tup([p \in 1..Len(D) |-> D[p] % Base]),
               <<0>> \o Tup([p \in 1..Len(D) |-> D[p] \div Base]))

\* a * 2^n
BShl(a, n) ==
  LET q == n \div LimbBits
      m == 2 ^ (n % LimbBits)
  IN IF Len(a) = 0 THEN <<>>
     ELSE BTrim(Tup([i \in 1..(Len(a) + q + 1) |->
                      ((Limb(a, i - q) * m) % Base) + ((Limb(a, i - q - 1) * m) \div Base)]))

\* floor(a / 2^n)
BShr(a, n) ==
  LET q == n \div LimbBits
      m == 2 ^ (n % LimbBits)
  IN IF q >= Len(a) THEN <<>>
     ELSE BTrim(Tup([i \in 1..(Len(a) - q) |->
                      (Limb(a, i + q) \div m) + (Limb(a, i + q + 1) % m) * (Base \div m)]))

RECURSIVE BDivSmallRange(_, _, _, _, _)
\* <<quotient limbs, remainder>> of the limbs hi..lo of a divided by d, with
\* the remainder r carried in from the limbs above
BDivSmallRange(a, d, lo, hi, r) ==
  IF lo = hi
  THEN LET cur == r * Base + a[lo] IN <<(<<cur \div d>>), cur % d>>
  ELSE LET top == BDivSmallRange(a, d, (lo + hi) \div 2 + 1, hi, r)
           bot == BDivSmallRange(a, d, lo, (lo + hi) \div 2, top[2])
       IN Then(top, <<bot[1] \o top[1], bot[2]>>)

\* floor(a / d) for a limb d > 0
BDivSmall(a, d) ==
  IF d = 1 \/ Len(a) = 0 THEN a
  ELSE BTrim(BDivSmallRange(a, d, 1, Len(a), 0)[1])

BitLenSmall(v) == CHOOSE k \in 0..LimbBits : (k = 0 /\ v = 0) \/ (k > 0 /\ 2 ^ (k - 1) <= v /\ v < 2 ^ k)

BBitLen(a) == IF Len(a) = 0 THEN 0 ELSE (Len(a) - 1) * LimbBits + BitLenSmall(a[Len(a)])

\* bit n (bit 0 is the least significant)
BBit(a, n) == (Limb(a, n \div LimbBits + 1) \div (2 ^ (n % LimbBits))) % 2

\* TRUE when the n low bits of a are all zero
BLowZero(a, n) ==
  /\ \A i \in 1..(n \div LimbBits) : Limb(a, i) = 0
  /\ Limb(a, n \div LimbBits + 1) % (2 ^ (n % LimbBits)) = 0

BIsOdd(a) == Limb(a, 1) % 2 = 1

RECURSIVE BFixDigit(_, _, _, _)
\* largest q <= qhat with q * b <= r, as <<q, q * b>>
BFixDigit(r, b, qhat, p) ==
  IF BCmp(p, r) <= 0 THEN <<qhat, p>>
  ELSE BFixDigit(r, b, qhat - 1, BSub(p, b))

\* one step of schoolbook division: <<quotient limb, remainder>> of r1 / b,
\* where r1 < b * Base and the top limb of b is at least Base / 2
BDivStep(r1, b) ==
  LET n == Len(b)
      est == (Limb(r1, n + 1) * Base + Limb(r1, n)) \div b[n]
      qhat == IF est > Base - 1 THEN Base - 1 ELSE est
      fix == IF BCmp(r1, b) < 0 THEN <<0, (<<>>)>>
             ELSE BFixDigit(r1, b, qhat, BMulSmall(b, qhat))
  IN <<fix[1], BSub(r1, fix[2])>>

\* step k of the division of a by b takes in limb Len(a) + 1 - k of a:
\* st = <<quotient limbs so far, remainder>>
BDivLimb(a, b, k, st) ==
  IF k > Len(a) THEN st
  ELSE LET d == BDivStep(BTrim(<<a[Len(a) + 1 - k]>> \o st[2]), b)
       IN <<(<<d[1]>>) \o st[1], d[2]>>

\* steps k + 1 .. k + 8 of the division
BDivLimb8(a, b, k, st) ==
  LET s1 == Call("BDivLimb", <<a, b, k + 1, st>>)
      s2 == Call("BDivLimb", <<a, b, k + 2, s1>>)
      s3 == Call("BDivLimb", <<a, b, k + 3, s2>>)
      s4 == Call("BDivLimb", <<a, b, k + 4, s3>>)
      s5 == Call("BDivLimb", <<a, b, k + 5, s4>>)
      s6 == Call("BDivLimb", <<a, b, k + 6, s5>>)
      s7 == Call("BDivLimb", <<a, b, k + 7, s6>>)
  IN <<s1, s2, s3, s4, s5, s6, s7, Call("BDivLimb", <<a, b, k + 8, s7>>)>>[8]

\* <<floor(a / b), TRUE iff b divides a>> for b > 0 and a of at most 32 limbs
BDivMod(a, b) ==
  LET s == LimbBits - BitLenSmall(b[Len(b)])
      as == BShl(a, s)
      bs == BShl(b, s)
      s8 == BDivLimb8(as, bs, 0, <<(<<>>), (<<>>)>>)
      s16 == BDivLimb8(as, bs, 8, s8)
      s24 == BDivLimb8(as, bs, 16, s16)
      res == BDivLimb8(as, bs, 24, s24)
  IN IF Len(a) = 0 THEN <<(<<>>), TRUE>>
     ELSE <<as, bs, s8, s16, s24, <<BTrim(res[1]), Len(res[2]) = 0>> >>[6]

\* one Newton step towards floor(sqrt(n)) from x >= floor(sqrt(n)):
\* st = <<x, TRUE iff x is the root>>
BSqrtStep(n, st) ==
  LET q == Call("BDivMod", <<n, st[1]>>)[1]
      y == BShr(BAdd(st[1], q), 1)
  IN IF st[2] THEN st
     ELSE <<q, IF BCmp(y, st[1]) >= 0 THEN <<st[1], TRUE>> ELSE <<y, FALSE>> >>[2]

BSqrtStep8(n, st) ==
  LET s1 == Call("BSqrtStep", <<n, st>>)
      s2 == Call("BSqrtStep", <<n, s1>>)
      s3 == Call("BSqrtStep", <<n, s2>>)
      s4 == Call("BSqrtStep", <<n, s3>>)
      s5 == Call("BSqrtStep", <<n, s4>>)
      s6 == Call("BSqrtStep", <<n, s5>>)
      s7 == Call("BSqrtStep", <<n, s6>>)
  IN <<s1, s2, s3, s4, s5, s6, s7, Call("BSqrtStep", <<n, s7>>)>>[8]

\* <<floor(sqrt(n)), TRUE iff n is a perfect square>>; from a power of two
\* above the root the steps converge well within 16
BSqrt(n) ==
  IF Len(n) = 0 THEN <<(<<>>), TRUE>>
  ELSE LET x0 == BShl(<<1>>, (BBitLen(n) + 1) \div 2)
           s8 == BSqrtStep8(n, <<x0, FALSE>>)
           r == BSqrtStep8(n, s8)[1]
       IN <<x0, s8, r, <<r, BCmp(Call("BMul", <<r, r>>), n) = 0>> >>[4]

\* the natural written in decimal as the groups g of four digits, most
\* significant first (at most 6 groups)
BFromDec(g) ==
  LET s1 == BFromInt(Limb(g, 1))
      s2 == IF Len(g) < 2 THEN s1 ELSE BAdd(BMulSmall(s1, 10000), BFromInt(g[2]))
      s3 == IF Len(g) < 3 THEN s2 ELSE BAdd(BMulSmall(s2, 10000), BFromInt(g[3]))
      s4 == IF Len(g) < 4 THEN s3 ELSE BAdd(BMulSmall(s3, 10000), BFromInt(g[4]))
      s5 == IF Len(g) < 5 THEN s4 ELSE BAdd(BMulSmall(s4, 10000), BFromInt(g[5]))
      s6 == IF Len(g) < 6 THEN s5 ELSE BAdd(BMulSmall(s5, 10000), BFromInt(g[6]))
  IN <<s1, s2, s3, s4, s5, s6>>[6]

\* 10^n for n <= 39
BPow10(n) ==
  LET e8 == BFromInt(100000000)
      e16 == Call("BMul", <<e8, e8>>)
      hi == n \div 8
      lo == BFromInt(10 ^ (n % 8))
  IN IF hi = 0 THEN lo
     ELSE IF hi = 1 THEN Call("BMul", <<lo, e8>>)
     ELSE IF hi = 2 THEN Call("BMul", <<lo, e16>>)
     ELSE IF hi = 3 THEN Call("BMul", <<lo, Call("BMul", <<e16, e8>>)>>)
     ELSE Call("BMul", <<lo, Call("BMul", <<e16, e16>>)>>)

----------------------------------------------------------------------------
(* IEEE-754 binary64.  A finite value is s * m * 2^e with m a natural of    *)
(* exactly MantBits bits (fewer only when e = ExpMin: a subnormal); zero    *)
(* has m = <<>> and keeps its sign.                                         *)

MantBits == 53
ExpMin == -1074
ExpMax == 1024

NaN == [k |-> "nan", s |-> 1, m |-> <<>>, e |-> 0]
Inf(s) == [k |-> "inf", s |-> s, m |-> <<>>, e |-> 0]
Zero(s) == [k |-> "fin", s |-> s, m |-> <<>>, e |-> 0]

IsNaN(x) == x.k = "nan"
IsInf(x) == x.k = "inf"
IsZero(x) == x.k = "fin" /\ Len(x.m) = 0
\* Number.isFinite / the global isFinite on a number
IsFinite(x) == x.k = "fin"

\* overflow past the largest finite value gives an infinity
Pack(s, m, e) ==
  IF Len(m) = 0 THEN Zero(s)
  ELSE IF e + BBitLen(m) > ExpMax THEN Inf(s)
  ELSE [k |-> "fin", s |-> s, m |-> m, e |-> e]

\* the binary64 nearest to s * (M + f) * 2^E, ties to even, where 0 <= f < 1
\* and f > 0 iff sticky
Round(s, M, E, sticky) ==
  IF Len(M) = 0 THEN Zero(s)
  ELSE LET L == BBitLen(M)
           sh == Max2(L - MantBits, ExpMin - E)
       IN IF sh <= 0
          THEN LET up == Min2(MantBits - L, E - ExpMin)
               IN Pack(s, BShl(M, up), E - up)
          ELSE LET q == BShr(M, sh)
                   half == BBit(M, sh - 1) = 1
                   rest == sticky \/ ~BLowZero(M, sh - 1)
                   q1 == IF half /\ (rest \/ BIsOdd(q)) THEN BAdd(q, <<1>>) ELSE q
               IN IF BBitLen(q1) > MantBits
                  THEN Pack(s, BShr(q1, 1), E + sh + 1)
                  ELSE Pack(s, q1, E + sh)

FromInt(i) == IF i < 0 THEN Call("Round", <<-1, BFromInt(-i), 0, FALSE>>) ELSE Call("Round", <<1, BFromInt(i), 0, FALSE>>)

\* the binary64 nearest to s * num / den (how a decimal literal is read)
FromRatio(s, num, den) ==
  LET sh == Max2(0, MantBits + 3 + BBitLen(den) - BBitLen(num))
      dm == Call("BDivMod", <<BShl(num, sh), den>>)
  IN Call("Round", <<s, dm[1], -sh, ~dm[2]>>)

\* the literal whose digits, in groups of four, are g, with `scale` digits
\* after the decimal point
Dec(s, g, scale) == FromRatio(s, BFromDec(g), BPow10(scale))

FNeg(x) == IF IsNaN(x) THEN x ELSE [x EXCEPT !.s = -x.s]
FAbs(x) == IF IsNaN(x) THEN x ELSE [x EXCEPT !.s = 1]

\* comparison of magnitudes of two values that are not NaN
MagCmp(x, y) ==
  IF IsInf(x) THEN (IF IsInf(y) THEN 0 ELSE 1)
  ELSE IF IsInf(y) THEN -1
  ELSE IF IsZero(x) THEN (IF IsZero(y) THEN 0 ELSE -1)
  ELSE IF IsZero(y) THEN 1
  ELSE IF x.e < y.e THEN -1
  ELSE IF x.e > y.e THEN 1
  ELSE BCmp(x.m, y.m)

FCmp(x, y) ==
  LET sx == IF IsZero(x) THEN 0 ELSE x.s
      sy == IF IsZero(y) THEN 0 ELSE y.s
  IN IF sx # sy THEN (IF sx < sy THEN -1 ELSE 1)
     ELSE IF sx = 0 THEN 0
     ELSE sx * MagCmp(x, y)

\* the comparison operators: every comparison with NaN is false
FLt(x, y) == ~IsNaN(x) /\ ~IsNaN(y) /\ FCmp(x, y) < 0
FLe(x, y) == ~IsNaN(x) /\ ~IsNaN(y) /\ FCmp(x, y) <= 0
FGt(x, y) == ~IsNaN(x) /\ ~IsNaN(y) /\ FCmp(x, y) > 0
FGe(x, y) == ~IsNaN(x) /\ ~IsNaN(y) /\ FCmp(x, y) >= 0
\* === on numbers: NaN differs from itself, 0 equals -0
FEq(x, y) == ~IsNaN(x) /\ ~IsNaN(y) /\ FCmp(x, y) = 0

FAddFin(x, y) ==
  IF x.e - y.e > MantBits + 8 \/ y.e - x.e > MantBits + 8
  THEN LET a == IF x.e > y.e THEN x ELSE y
           b == IF x.e > y.e THEN y ELSE x
       IN IF a.s = b.s
          THEN Call("Round", <<a.s, BShl(a.m, 2), a.e - 2, TRUE>>)
          ELSE Call("Round", <<a.s, BSub(BShl(a.m, 2), <<1>>), a.e - 2, TRUE>>)
  ELSE LET e == Min2(x.e, y.e)
           Mx == BShl(x.m, x.e - e)
           My == BShl(y.m, y.e - e)
           c == BCmp(Mx, My)
       IN IF x.s = y.s THEN Call("Round", <<x.s, BAdd(Mx, My), e, FALSE>>)
          ELSE IF c = 0 THEN Zero(1)
          ELSE IF c > 0 THEN Call("Round", <<x.s, BSub(Mx, My), e, FALSE>>)
          ELSE Call("Round", <<y.s, BSub(My, Mx), e, FALSE>>)

RoundedAdd(x, y) ==
  IF IsNaN(x) \/ IsNaN(y) THEN NaN
  ELSE IF IsInf(x) THEN (IF IsInf(y) /\ x.s # y.s THEN NaN ELSE x)
  ELSE IF IsInf(y) THEN y
  ELSE IF IsZero(x) /\ IsZero(y) THEN Zero(IF x.s = y.s THEN x.s ELSE 1)
  ELSE IF IsZero(x) THEN y
  ELSE IF IsZero(y) THEN x
  ELSE FAddFin(x, y)
FAdd(x, y) == Call("FAdd", <<x, y>>)

FSub(x, y) == FAdd(x, FNeg(y))

RoundedMul(x, y) ==
  IF IsNaN(x) \/ IsNaN(y) THEN NaN
  ELSE IF IsInf(x) \/ IsInf(y)
       THEN (IF IsZero(x) \/ IsZero(y) THEN NaN ELSE Inf(x.s * y.s))
  ELSE IF IsZero(x) \/ IsZero(y) THEN Zero(x.s * y.s)
  ELSE Call("Round", <<x.s * y.s, Call("BMul", <<x.m, y.m>>), x.e + y.e, FALSE>>)
FMul(x, y) == Call("FMul", <<x, y>>)

RoundedDiv(x, y) ==
  IF IsNaN(x) \/ IsNaN(y) THEN NaN
  ELSE IF IsInf(x) THEN (IF IsInf(y) THEN NaN ELSE Inf(x.s * y.s))
  ELSE IF IsInf(y) THEN Zero(x.s * y.s)
  ELSE IF IsZero(y) THEN (IF IsZero(x) THEN NaN ELSE Inf(x.s * y.s))
  ELSE IF IsZero(x) THEN Zero(x.s * y.s)
  ELSE LET sh == MantBits + 3 + BBitLen(y.m) - BBitLen(x.m)
           dm == Call("BDivMod", <<BShl(x.m, sh), y.m>>)
       IN Call("Round", <<x.s * y.s, dm[1], x.e - y.e - sh, ~dm[2]>>)
FDiv(x, y) == Call("FDiv", <<x, y>>)

RoundedSqrt(x) ==
  IF IsNaN(x) THEN NaN
  ELSE IF IsZero(x) THEN x
  ELSE IF x.s < 0 THEN NaN
  ELSE IF IsInf(x) THEN x
  ELSE LET k0 == 2 * MantBits + 4 - BBitLen(x.m)
           k == k0 + ((x.e - k0) % 2)
           r == Call("BSqrt", <<BShl(x.m, k)>>)
       IN Call("Round", <<1, r[1], (x.e - k) \div 2, ~r[2]>>)
FSqrt(x) == Call("FSqrt", <<x>>)

\* Math.sign
FSign(x) ==
  IF IsNaN(x) \/ IsZero(x) THEN x
  ELSE Call("FromInt", <<x.s>>)

\* Math.floor
FFloor(x) ==
  IF ~IsFinite(x) \/ IsZero(x) \/ x.e >= 0 THEN x
  ELSE LET q == BShr(x.m, -x.e)
       IN IF x.s > 0 THEN Call("Round", <<1, q, 0, FALSE>>)
          ELSE IF BLowZero(x.m, -x.e) THEN Call("Round", <<-1, q, 0, FALSE>>)
          ELSE Call("Round", <<-1, BAdd(q, <<1>>), 0, FALSE>>)

\* the integer a number below 2^30 in magnitude with no fraction is
FToInt(x) ==
  IF IsZero(x) THEN 0
  ELSE IF x.e >= 0 THEN x.s * BToInt(x.m) * (2 ^ x.e)
  ELSE x.s * BToInt(BShr(x.m, -x.e))

\* `${x}` for NaN, the infinities and the integers below 2^30 in magnitude:
\* the decimal digits, with a minus sign when negative
NumberToString(x) ==
  IF IsNaN(x) THEN "NaN"
  ELSE IF IsInf(x) THEN (IF x.s < 0 THEN "-Infinity" ELSE "Infinity")
  ELSE ToString(FToInt(x))

\* Math.abs(x) >= y and Math.abs(x) < y
AbsGe(x, y) == FGe(FAbs(x), y)
AbsLt(x, y) == FLt(FAbs(x), y)

----------------------------------------------------------------------------
(* Math.sin, Math.cos, Math.atan2, Math.asin, Math.acos.  The argument is   *)
(* taken to a grid of 2^-FracBits, the function is evaluated there by its   *)
(* power series after range reduction, and the result is rounded once.      *)

FracBits == 120

OneFix == BShl(<<1>>, FracBits)
HalfFix == BShl(<<1>>, FracBits - 1)
\* pi, pi/2 and pi/4 on the grid
PiFix == <<28787, 23558, 26152, 6296, 12429, 4276, 23202, 4639, 3>>
PiO2Fix == <<14394, 11779, 13076, 19532, 6214, 2138, 27985, 18703, 1>>
PiO4Fix == <<23581, 5889, 6538, 9766, 3107, 17453, 30376, 25735>>
\* atan(j/8) on the grid, j = 0..8
AtanTab ==
  << <<>>,
     <<20754, 10191, 19404, 13000, 30428, 21893, 28326, 4074>>,
     <<26758, 31483, 18334, 10971, 7084, 19232, 15100, 8027>>,
     <<32546, 8924, 17986, 20010, 15395, 29295, 6465, 11756>>,
     <<7495, 27836, 18571, 5567, 21466, 12509, 26373, 15192>>,
     <<17463, 11467, 3448, 23268, 23033, 24318, 5975, 18304>>,
     <<32173, 21642, 8700, 8397, 28818, 9886, 8006, 21086>>,
     <<9284, 9249, 13973, 7769, 6631, 30790, 20362, 23554>>,
     <<23581, 5889, 6538, 9766, 3107, 17453, 30376, 25735>> >>

\* |x| on the grid, x finite
ToFix(x) ==
  IF x.e + FracBits >= 0 THEN BShl(x.m, x.e + FracBits)
  ELSE BShr(x.m, -(x.e + FracBits))

FixMul(a, b) == BShr(Call("BMul", <<a, b>>), FracBits)

\* term n of the series from term n - 1: st = <<term, sum>>, the terms are
\* subtracted and added in turn until they vanish
TaylorStep(r2, c, n, st) ==
  LET t == BDivSmall(FixMul(st[1], r2), (2 * n + c) * (2 * n + c + 1))
  IN IF Len(st[1]) = 0 THEN st
     ELSE <<t, IF n % 2 = 0 THEN BAdd(st[2], t) ELSE BSub(st[2], t)>>

\* terms n + 1 .. n + 8
TaylorStep8(r2, c, n, st) ==
  LET s1 == Call("TaylorStep", <<r2, c, n + 1, st>>)
      s2 == Call("TaylorStep", <<r2, c, n + 2, s1>>)
      s3 == Call("TaylorStep", <<r2, c, n + 3, s2>>)
      s4 == Call("TaylorStep", <<r2, c, n + 4, s3>>)
      s5 == Call("TaylorStep", <<r2, c, n + 5, s4>>)
      s6 == Call("TaylorStep", <<r2, c, n + 6, s5>>)
      s7 == Call("TaylorStep", <<r2, c, n + 7, s6>>)
  IN <<s1, s2, s3, s4, s5, s6, s7, Call("TaylorStep", <<r2, c, n + 8, s7>>)>>[8]

\* sin r and cos r for 0 <= r <= pi/4: 24 terms reach below the grid
SinFix(r) ==
  LET r2 == FixMul(r, r)
      s8 == TaylorStep8(r2, 0, 0, <<r, r>>)
      s16 == TaylorStep8(r2, 0, 8, s8)
  IN <<r2, s8, s16, TaylorStep8(r2, 0, 16, s16)[2]>>[4]
CosFix(r) ==
  LET r2 == FixMul(r, r)
      s8 == TaylorStep8(r2, -1, 0, <<OneFix, OneFix>>)
      s16 == TaylorStep8(r2, -1, 8, s8)
  IN <<r2, s8, s16, TaylorStep8(r2, -1, 16, s16)[2]>>[4]

\* <<k mod 4, sign of R, |R|>> where |x| = k pi/2 + R and |R| <= pi/4
Reduce(x) ==
  LET X == ToFix(x)
      k == BToInt(Call("BDivMod", <<BAdd(X, PiO4Fix), PiO2Fix>>)[1])
      kp == BMulSmall(PiO2Fix, k)
  IN IF BCmp(X, kp) >= 0 THEN <<k % 4, 1, BSub(X, kp)>>
     ELSE <<k % 4, -1, BSub(kp, X)>>

RoundedSin(x) ==
  IF IsNaN(x) \/ IsInf(x) THEN NaN
  ELSE IF IsZero(x) \/ x.e + MantBits <= -26 THEN x
  ELSE LET rd == Call("Reduce", <<x>>)
           v == IF rd[1] % 2 = 0 THEN Call("SinFix", <<rd[3]>>) ELSE Call("CosFix", <<rd[3]>>)
           sg == (IF rd[1] % 2 = 0 THEN rd[2] ELSE 1) * (IF rd[1] >= 2 THEN -1 ELSE 1)
       IN Call("Round", <<sg * x.s, v, -FracBits, TRUE>>)
FSin(x) == Call("FSin", <<x>>)

RoundedCos(x) ==
  IF IsNaN(x) \/ IsInf(x) THEN NaN
  ELSE IF IsZero(x) \/ x.e + MantBits <= -27 THEN Call("FromInt", <<1>>)
  ELSE LET rd == Call("Reduce", <<x>>)
           v == IF rd[1] % 2 = 0 THEN Call("CosFix", <<rd[3]>>) ELSE Call("SinFix", <<rd[3]>>)
           sg == IF rd[1] = 0 THEN 1
                 ELSE IF rd[1] = 1 THEN -rd[2]
                 ELSE IF rd[1] = 2 THEN -1
                 ELSE rd[2]
       IN Call("Round", <<sg, v, -FracBits, TRUE>>)
FCos(x) == Call("FCos", <<x>>)

\* st = <<u^(2n-1), sum>> to <<u^(2n+1), sum -/+ u^(2n+1) / (2n+1)>>
AtanStep(u2, n, st) ==
  LET p == FixMul(st[1], u2)
      t == BDivSmall(p, 2 * n + 1)
  IN IF Len(st[1]) = 0 THEN st
     ELSE <<p, IF n % 2 = 0 THEN BAdd(st[2], t) ELSE BSub(st[2], t)>>

AtanStep8(u2, n, st) ==
  LET s1 == Call("AtanStep", <<u2, n + 1, st>>)
      s2 == Call("AtanStep", <<u2, n + 2, s1>>)
      s3 == Call("AtanStep", <<u2, n + 3, s2>>)
      s4 == Call("AtanStep", <<u2, n + 4, s3>>)
      s5 == Call("AtanStep", <<u2, n + 5, s4>>)
      s6 == Call("AtanStep", <<u2, n + 6, s5>>)
      s7 == Call("AtanStep", <<u2, n + 7, s6>>)
  IN <<s1, s2, s3, s4, s5, s6, s7, Call("AtanStep", <<u2, n + 8, s7>>)>>[8]

\* atan u for 0 <= u <= 1/16: 16 terms reach below the grid
AtanSeries(u) ==
  LET u2 == FixMul(u, u)
      s8 == AtanStep8(u2, 0, <<u, u>>)
  IN <<u2, s8, AtanStep8(u2, 8, s8)[2]>>[3]

\* atan(num / den) on the grid, for naturals 0 <= num <= den, den > 0:
\* atan t = atan(j/8) + atan((t - j/8) / (1 + t j/8)) with j/8 nearest to t
AtanRatio(num, den) ==
  LET T == Call("BDivMod", <<BShl(num, FracBits), den>>)[1]
      T8 == BShl(T, 3)
      j == BToInt(BShr(BAdd(T8, HalfFix), FracBits))
      jf == BShl(BFromInt(j), FracBits)
      pos == BCmp(T8, jf) >= 0
      nn == IF pos THEN BSub(T8, jf) ELSE BSub(jf, T8)
      dd == BAdd(BShl(OneFix, 3), BMulSmall(T, j))
      u == Call("BDivMod", <<BShl(nn, FracBits), dd>>)[1]
      a == AtanSeries(u)
  IN <<T, u, a, IF pos THEN BAdd(AtanTab[j + 1], a) ELSE BSub(AtanTab[j + 1], a)>>[4]

FAtan2Fin(y, x) ==
  LET swap == MagCmp(y, x) > 0
      lo == IF swap THEN x ELSE y
      hi == IF swap THEN y ELSE x
      tiny == hi.e - lo.e > 30
      A == IF tiny THEN ToFix(FDiv(FAbs(lo), FAbs(hi)))
           ELSE Call("AtanRatio", <<lo.m, BShl(hi.m, hi.e - lo.e)>>)
      th1 == IF swap THEN BSub(PiO2Fix, A) ELSE A
      th == IF x.s < 0 THEN BSub(PiFix, th1) ELSE th1
  IN IF tiny /\ ~swap /\ x.s > 0 THEN FDiv(y, x)
     ELSE Call("Round", <<y.s, th, -FracBits, TRUE>>)

RoundedAtan2(y, x) ==
  IF IsNaN(x) \/ IsNaN(y) THEN NaN
  ELSE IF IsZero(y)
       THEN (IF x.s > 0 THEN Zero(y.s) ELSE Call("Round", <<y.s, PiFix, -FracBits, TRUE>>))
  ELSE IF IsZero(x) THEN Call("Round", <<y.s, PiO2Fix, -FracBits, TRUE>>)
  ELSE IF IsInf(y)
       THEN (IF ~IsInf(x) THEN Call("Round", <<y.s, PiO2Fix, -FracBits, TRUE>>)
             ELSE IF x.s > 0 THEN Call("Round", <<y.s, PiO4Fix, -FracBits, TRUE>>)
             ELSE Call("Round", <<y.s, BAdd(PiO2Fix, PiO4Fix), -FracBits, TRUE>>))
  ELSE IF IsInf(x)
       THEN (IF x.s > 0 THEN Zero(y.s) ELSE Call("Round", <<y.s, PiFix, -FracBits, TRUE>>))
  ELSE FAtan2Fin(y, x)
FAtan2(y, x) == Call("FAtan2", <<y, x>>)

\* sqrt(1 - S^2) on the grid, 0 <= S <= 1
CoFix(S) == Call("BSqrt", <<BSub(BShl(<<1>>, 2 * FracBits), Call("BMul", <<S, S>>))>>)[1]

RoundedAsin(x) ==
  IF IsNaN(x) \/ IsInf(x) THEN NaN
  ELSE IF IsZero(x) \/ x.e + MantBits <= -26 THEN x
  ELSE IF MagCmp(x, Call("FromInt", <<1>>)) > 0 THEN NaN
  ELSE LET S == ToFix(x)
           C == CoFix(S)
           A == IF BCmp(S, C) <= 0 THEN Call("AtanRatio", <<S, C>>)
                ELSE BSub(PiO2Fix, Call("AtanRatio", <<C, S>>))
       IN Call("Round", <<x.s, A, -FracBits, TRUE>>)
FAsin(x) == Call("FAsin", <<x>>)

RoundedAcos(x) ==
  IF IsNaN(x) \/ IsInf(x) THEN NaN
  ELSE IF MagCmp(x, Call("FromInt", <<1>>)) > 0 THEN NaN
  ELSE LET S == ToFix(x)
           C == CoFix(S)
           A0 == IF BCmp(C, S) <= 0 THEN Call("AtanRatio", <<C, S>>)
                 ELSE BSub(PiO2Fix, Call("AtanRatio", <<S, C>>))
           A == IF x.s < 0 /\ ~IsZero(x) THEN BSub(PiFix, A0) ELSE A0
       IN Call("Round", <<1, A, -FracBits, TRUE>>)
FAcos(x) == Call("FAcos", <<x>>)

----------------------------------------------------------------------------
(* Number literals of the sources.                                          *)

F0 == Zero(1)
F1 == Call("FromInt", <<1>>)
F2 == Call("FromInt", <<2>>)
F180 == Call("FromInt", <<180>>)
FHalf == Call("Dec", <<1, <<5>>, 1>>)
FQuarter == Call("Dec", <<1, <<25>>, 2>>)
FMilli == Call("Dec", <<1, <<1>>, 3>>)
MathPI == Call("Dec", <<1, <<3141, 5926, 5358, 9793>>, 15>>)

\* WGS84.a and WGS84.e2
WGS84a == Call("FromInt", <<6378137>>)
WGS84e2 == Call("Dec", <<1, <<6694, 3799, 9014>>, 14>>)

\* a JavaScript value that is undefined, and a thrown TypeError
Undefined == [undefined |-> TRUE]
IsUndefined(v) == "undefined" \in DOMAIN v
TypeError == [error |-> "TypeError"]
IsError(v) == "error" \in DOMAIN v
\* o.f: undefined when the object has no such property
Prop(o, f) == IF f \in DOMAIN o THEN o[f] ELSE Undefined

Quat(x, y, z, w) == [x |-> x, y |-> y, z |-> z, w |-> w]

----------------------------------------------------------------------------
(* conversions.ts                                                           *)

degToRad(deg) == FMul(deg, FDiv(MathPI, F180))
radToDeg(rad) == FMul(rad, FDiv(F180, MathPI))

\* sinp of quaternionToYPR
sinpOf(q) == FMul(F2, FSub(FMul(q.w, q.y), FMul(q.z, q.x)))

\* the pitch, in radians, that quaternionToYPR takes from sinp
pitchOf(sinp) ==
  IF AbsGe(sinp, F1) THEN FMul(FSign(sinp), FDiv(MathPI, F2))
  ELSE FAsin(sinp)

quaternionToYPR(geoPose) ==
  LET q == geoPose.quaternion
      sinr_cosp == FMul(F2, FAdd(FMul(q.w, q.x), FMul(q.y, q.z)))
      cosr_cosp == FSub(F1, FMul(F2, FAdd(FMul(q.x, q.x), FMul(q.y, q.y))))
      roll == FAtan2(sinr_cosp, cosr_cosp)
      pitch == pitchOf(sinpOf(q))
      siny_cosp == FMul(F2, FAdd(FMul(q.w, q.z), FMul(q.x, q.y)))
      cosy_cosp == FSub(F1, FMul(F2, FAdd(FMul(q.y, q.y), FMul(q.z, q.z))))
      yaw == FAtan2(siny_cosp, cosy_cosp)
  IN [position |-> geoPose.position,
      angles |-> [yaw |-> radToDeg(yaw), pitch |-> radToDeg(pitch), roll |-> radToDeg(roll)]]

\* yprToQuaternion with the sign of the second term of x turned
yprToQuaternionTurned(geoPose) ==
  LET yaw == degToRad(geoPose.angles.yaw)
      pitch == degToRad(geoPose.angles.pitch)
      roll == degToRad(geoPose.angles.roll)
      cy == FCos(FMul(yaw, FHalf))
      sy == FSin(FMul(yaw, FHalf))
      cp == FCos(FMul(pitch, FHalf))
      sp == FSin(FMul(pitch, FHalf))
      cr == FCos(FMul(roll, FHalf))
      sr == FSin(FMul(roll, FHalf))
      w == FAdd(FMul(FMul(cr, cp), cy), FMul(FMul(sr, sp), sy))
      x == FAdd(FMul(FMul(sr, cp), cy), FMul(FMul(cr, sp), sy))
      y == FAdd(FMul(FMul(cr, sp), cy), FMul(FMul(sr, cp), sy))
      z == FSub(FMul(FMul(cr, cp), sy), FMul(FMul(sr, sp), cy))
  IN [position |-> geoPose.position, quaternion |-> Quat(x, y, z, w)]

yprToQuaternion(geoPose) ==
  LET yaw == degToRad(geoPose.angles.yaw)
      pitch == degToRad(geoPose.angles.pitch)
      roll == degToRad(geoPose.angles.roll)
      cy == FCos(FMul(yaw, FHalf))
      sy == FSin(FMul(yaw, FHalf))
      cp == FCos(FMul(pitch, FHalf))
      sp == FSin(FMul(pitch, FHalf))
      cr == FCos(FMul(roll, FHalf))
      sr == FSin(FMul(roll, FHalf))
      w == FAdd(FMul(FMul(cr, cp), cy), FMul(FMul(sr, sp), sy))
      x == FSub(FMul(FMul(sr, cp), cy), FMul(FMul(cr, sp), sy))
      y == FAdd(FMul(FMul(cr, sp), cy), FMul(FMul(sr, cp), sy))
      z == FSub(FMul(FMul(cr, cp), sy), FMul(FMul(sr, sp), cy))
  IN [position |-> geoPose.position, quaternion |-> Quat(x, y, z, w)]

\* the product with the sign of the last term of x turned
multiplyQuaternionsSignSlip(a, b) ==
  [x |-> FAdd(FAdd(FAdd(FMul(a.w, b.x), FMul(a.x, b.w)), FMul(a.y, b.z)), FMul(a.z, b.y)),
   y |-> FAdd(FAdd(FSub(FMul(a.w, b.y), FMul(a.x, b.z)), FMul(a.y, b.w)), FMul(a.z, b.x)),
   z |-> FAdd(FSub(FAdd(FMul(a.w, b.z), FMul(a.x, b.y)), FMul(a.y, b.x)), FMul(a.z, b.w)),
   w |-> FSub(FSub(FSub(FMul(a.w, b.w), FMul(a.x, b.x)), FMul(a.y, b.y)), FMul(a.z, b.z))]

multiplyQuaternions(a, b) ==
  [x |-> FSub(FAdd(FAdd(FMul(a.w, b.x), FMul(a.x, b.w)), FMul(a.y, b.z)), FMul(a.z, b.y)),
   y |-> FAdd(FAdd(FSub(FMul(a.w, b.y), FMul(a.x, b.z)), FMul(a.y, b.w)), FMul(a.z, b.x)),
   z |-> FAdd(FSub(FAdd(FMul(a.w, b.z), FMul(a.x, b.y)), FMul(a.y, b.x)), FMul(a.z, b.w)),
   w |-> FSub(FSub(FSub(FMul(a.w, b.w), FMul(a.x, b.x)), FMul(a.y, b.y)), FMul(a.z, b.z))]

conjugateQuaternion(q) == [x |-> FNeg(q.x), y |-> FNeg(q.y), z |-> FNeg(q.z), w |-> q.w]

matrixToQuaternion(m00, m01, m02, m10, m11, m12, m20, m21, m22) ==
  LET trace == FAdd(FAdd(m00, m11), m22)
  IN IF FGt(trace, F0)
     THEN LET s == FDiv(FHalf, FSqrt(FAdd(trace, F1)))
          IN Quat(FMul(FSub(m21, m12), s), FMul(FSub(m02, m20), s),
                  FMul(FSub(m10, m01), s), FDiv(FQuarter, s))
     ELSE IF FGt(m00, m11) /\ FGt(m00, m22)
     THEN LET s == FMul(F2, FSqrt(FSub(FSub(FAdd(F1, m00), m11), m22)))
          IN Quat(FMul(FQuarter, s), FDiv(FAdd(m01, m10), s),
                  FDiv(FAdd(m02, m20), s), FDiv(FSub(m21, m12), s))
     ELSE IF FGt(m11, m22)
     THEN LET s == FMul(F2, FSqrt(FSub(FSub(FAdd(F1, m11), m00), m22)))
          IN Quat(FDiv(FAdd(m01, m10), s), FMul(FQuarter, s),
                  FDiv(FAdd(m12, m21), s), FDiv(FSub(m02, m20), s))
     ELSE LET s == FMul(F2, FSqrt(FSub(FSub(FAdd(F1, m22), m00), m11)))
          IN Quat(FDiv(FAdd(m02, m20), s), FDiv(FAdd(m12, m21), s),
                  FMul(FQuarter, s), FDiv(FSub(m10, m01), s))

\* matrixToQuaternion with the branch it took and its s: the trace test
\* admitting a zero trace
matrixToQuaternionRunFromZero(m) ==
  LET trace == FAdd(FAdd(m[1], m[5]), m[9])
      Taken(branch, s) == [branch |-> branch, s |-> s, trace |-> trace]
  IN IF FGe(trace, F0)
     THEN Taken("trace", FDiv(FHalf, FSqrt(FAdd(trace, F1))))
     ELSE IF FGt(m[1], m[5]) /\ FGt(m[1], m[9])
     THEN Taken("m00", FMul(F2, FSqrt(FSub(FSub(FAdd(F1, m[1]), m[5]), m[9]))))
     ELSE IF FGt(m[5], m[9])
     THEN Taken("m11", FMul(F2, FSqrt(FSub(FSub(FAdd(F1, m[5]), m[1]), m[9]))))
     ELSE Taken("m22", FMul(F2, FSqrt(FSub(FSub(FAdd(F1, m[9]), m[1]), m[5]))))

\* matrixToQuaternion of the matrix m = <<m00, m01, ..., m22>>: the branch it
\* takes, the s of that branch and its trace
matrixToQuaternionRun(m) ==
  LET trace == FAdd(FAdd(m[1], m[5]), m[9])
      Taken(branch, s) == [branch |-> branch, s |-> s, trace |-> trace]
  IN IF FGt(trace, F0)
     THEN Taken("trace", FDiv(FHalf, FSqrt(FAdd(trace, F1))))
     ELSE IF FGt(m[1], m[5]) /\ FGt(m[1], m[9])
     THEN Taken("m00", FMul(F2, FSqrt(FSub(FSub(FAdd(F1, m[1]), m[5]), m[9]))))
     ELSE IF FGt(m[5], m[9])
     THEN Taken("m11", FMul(F2, FSqrt(FSub(FSub(FAdd(F1, m[5]), m[1]), m[9]))))
     ELSE Taken("m22", FMul(F2, FSqrt(FSub(FSub(FAdd(F1, m[9]), m[1]), m[5]))))

\* the matrix getEnuToEcefRotation hands to matrixToQuaternion
enuToEcefMatrix(lat, lon) ==
  LET cl == FCos(lat)
      sl == FSin(lat)
      cL == FCos(lon)
      sL == FSin(lon)
  IN <<FNeg(sL), FMul(FNeg(sl), cL), FMul(cl, cL),
       cL, FMul(FNeg(sl), sL), FMul(cl, sL),
       F0, cl, sl>>

\* lat and lon in radians
getEnuToEcefRotation(lat, lon) ==
  LET cl == FCos(lat)
      sl == FSin(lat)
      cL == FCos(lon)
      sL == FSin(lon)
  IN matrixToQuaternion(FNeg(sL), FMul(FNeg(sl), cL), FMul(cl, cL),
                        cL, FMul(FNeg(sl), sL), FMul(cl, sL),
                        F0, cl, sl)

getEcefToEnuRotation(lat, lon) ==
  LET cl == FCos(lat)
      sl == FSin(lat)
      cL == FCos(lon)
      sL == FSin(lon)
  IN matrixToQuaternion(FNeg(sL), cL, F0,
                        FMul(FNeg(sl), cL), FMul(FNeg(sl), sL), cl,
                        FMul(cl, cL), FMul(cl, sL), sl)

\* geoPoseToECEF with z taken on a sphere of radius N
geoPoseToECEFOnSphere(geoPose) ==
  LET lat == degToRad(geoPose.position.lat)
      lon == degToRad(geoPose.position.lon)
      h == geoPose.position.h
      sinLat == FSin(lat)
      cosLat == FCos(lat)
      sinLon == FSin(lon)
      cosLon == FCos(lon)
      N == FDiv(WGS84a, FSqrt(FSub(F1, FMul(FMul(WGS84e2, sinLat), sinLat))))
      x == FMul(FMul(FAdd(N, h), cosLat), cosLon)
      y == FMul(FMul(FAdd(N, h), cosLat), sinLon)
      z == FMul(FAdd(N, h), sinLat)
      qEnuToEcef == getEnuToEcefRotation(lat, lon)
  IN <<N, [position |-> [x |-> x, y |-> y, z |-> z],
           orientation |-> multiplyQuaternions(qEnuToEcef, geoPose.quaternion)]>>[2]

geoPoseToECEF(geoPose) ==
  LET lat == degToRad(geoPose.position.lat)
      lon == degToRad(geoPose.position.lon)
      h == geoPose.position.h
      sinLat == FSin(lat)
      cosLat == FCos(lat)
      sinLon == FSin(lon)
      cosLon == FCos(lon)
      N == FDiv(WGS84a, FSqrt(FSub(F1, FMul(FMul(WGS84e2, sinLat), sinLat))))
      x == FMul(FMul(FAdd(N, h), cosLat), cosLon)
      y == FMul(FMul(FAdd(N, h), cosLat), sinLon)
      z == FMul(FAdd(FMul(N, FSub(F1, WGS84e2)), h), sinLat)
      qEnuToEcef == getEnuToEcefRotation(lat, lon)
  IN <<N, [position |-> [x |-> x, y |-> y, z |-> z],
           orientation |-> multiplyQuaternions(qEnuToEcef, geoPose.quaternion)]>>[2]

\* a pass that takes h from the N of the pass before
ecefIterationStale(p, z, st) ==
  LET sinPhi == FSin(st.phi)
      N == FDiv(WGS84a, FSqrt(FSub(F1, FMul(FMul(WGS84e2, sinPhi), sinPhi))))
      cosPhi == FCos(st.phi)
      h == FSub(FDiv(p, cosPhi), st.N)
      Nh == FAdd(N, h)
      phi == FAtan2(z, FMul(p, FSub(F1, FMul(WGS84e2, FDiv(N, Nh)))))
  IN <<N, h, [phi |-> phi, h |-> h, N |-> N, cosPhi |-> cosPhi, Nh |-> Nh]>>[3]

\* one pass of the refinement loop of ecefToGeoPose from st = [phi, h, N];
\* cosPhi and Nh record the two divisors of the pass
ecefIteration(p, z, st) ==
  LET sinPhi == FSin(st.phi)
      N == FDiv(WGS84a, FSqrt(FSub(F1, FMul(FMul(WGS84e2, sinPhi), sinPhi))))
      cosPhi == FCos(st.phi)
      h == FSub(FDiv(p, cosPhi), N)
      Nh == FAdd(N, h)
      phi == FAtan2(z, FMul(p, FSub(F1, FMul(WGS84e2, FDiv(N, Nh)))))
  IN <<N, h, [phi |-> phi, h |-> h, N |-> N, cosPhi |-> cosPhi, Nh |-> Nh]>>[3]

\* the states after the initial guess and after each of the 5 passes
ecefIterations(ecef) ==
  LET p == FSqrt(FAdd(FMul(ecef.x, ecef.x), FMul(ecef.y, ecef.y)))
      s0 == [phi |-> FAtan2(ecef.z, FMul(p, FSub(F1, WGS84e2))), h |-> F0, N |-> F0,
             cosPhi |-> F1, Nh |-> F1]
      s1 == Call("ecefIteration", <<p, ecef.z, s0>>)
      s2 == Call("ecefIteration", <<p, ecef.z, s1>>)
      s3 == Call("ecefIteration", <<p, ecef.z, s2>>)
      s4 == Call("ecefIteration", <<p, ecef.z, s3>>)
      s5 == Call("ecefIteration", <<p, ecef.z, s4>>)
  IN <<s0, s1, s2, s3, s4, s5>>

\* ecefToGeoPose up to its loop: p, and the initial guess with i = 0
ecefStart(ecef) ==
  LET p == FSqrt(FAdd(FMul(ecef.x, ecef.x), FMul(ecef.y, ecef.y)))
  IN [i |-> 0, p |-> p,
      st |-> [phi |-> FAtan2(ecef.z, FMul(p, FSub(F1, WGS84e2))), h |-> F0, N |-> F0,
              cosPhi |-> F1, Nh |-> F1]]

\* ecefToGeoPose after its loop, which ended in the state last
ecefResult(ecef, orientation, last) ==
  LET lam == FAtan2(ecef.y, ecef.x)
      qEcefToEnu == getEcefToEnuRotation(last.phi, lam)
  IN [position |-> [lat |-> radToDeg(last.phi), lon |-> radToDeg(lam), h |-> last.h],
      quaternion |-> multiplyQuaternions(qEcefToEnu, orientation)]

ecefToGeoPose(ecef, orientation) ==
  LET last == Call("ecefIterations", <<ecef>>)[6]
  IN <<last, Call("ecefResult", <<ecef, orientation, last>>)>>[2]

----------------------------------------------------------------------------
(* local.ts                                                                 *)

identityQuaternion == Quat(F0, F0, F0, F1)

geoPoseToLocalENU(geoPose, origin) ==
  LET targetEcef == Call("geoPoseToECEF", <<geoPose>>)
      originEcef == Call("geoPoseToECEF", <<[position |-> origin, quaternion |-> identityQuaternion]>>)
      dx == FSub(targetEcef.position.x, originEcef.position.x)
      dy == FSub(targetEcef.position.y, originEcef.position.y)
      dz == FSub(targetEcef.position.z, originEcef.position.z)
      latRad == FDiv(FMul(origin.lat, MathPI), F180)
      lonRad == FDiv(FMul(origin.lon, MathPI), F180)
      cl == FCos(latRad)
      sl == FSin(latRad)
      cL == FCos(lonRad)
      sL == FSin(lonRad)
      east == FAdd(FMul(FNeg(sL), dx), FMul(cL, dy))
      north == FAdd(FSub(FMul(FMul(FNeg(sl), cL), dx), FMul(FMul(sl, sL), dy)), FMul(cl, dz))
      up == FAdd(FAdd(FMul(FMul(cl, cL), dx), FMul(FMul(cl, sL), dy)), FMul(sl, dz))
      ecefToOriginEnu == conjugateQuaternion(getEnuToEcefRotation(latRad, lonRad))
  IN <<targetEcef, originEcef,
       [position |-> [east |-> east, north |-> north, up |-> up],
        orientation |-> multiplyQuaternions(ecefToOriginEnu, targetEcef.orientation)]>>[3]

\* enu.east and the multiplication by orientation throw a TypeError when enu
\* or orientation is undefined
localENUToGeoPose(enu, orientation, origin) ==
  LET originEcef == Call("geoPoseToECEF", <<[position |-> origin, quaternion |-> identityQuaternion]>>)
      latRad == FDiv(FMul(origin.lat, MathPI), F180)
      lonRad == FDiv(FMul(origin.lon, MathPI), F180)
      cl == FCos(latRad)
      sl == FSin(latRad)
      cL == FCos(lonRad)
      sL == FSin(lonRad)
      dx == FAdd(FSub(FMul(FNeg(sL), enu.east), FMul(FMul(sl, cL), enu.north)),
                 FMul(FMul(cl, cL), enu.up))
      dy == FAdd(FSub(FMul(cL, enu.east), FMul(FMul(sl, sL), enu.north)),
                 FMul(FMul(cl, sL), enu.up))
      dz == FAdd(FMul(cl, enu.north), FMul(sl, enu.up))
      target == [x |-> FAdd(originEcef.position.x, dx),
                 y |-> FAdd(originEcef.position.y, dy),
                 z |-> FAdd(originEcef.position.z, dz)]
      targetToEcef == multiplyQuaternions(getEnuToEcefRotation(latRad, lonRad), orientation)
  IN IF IsUndefined(enu) \/ IsUndefined(orientation) THEN TypeError
     ELSE <<originEcef, target, targetToEcef, Call("ecefToGeoPose", <<target, targetToEcef>>)>>[4]

translateGeoPose(geoPose, translation) ==
  Call("localENUToGeoPose", <<translation, geoPose.quaternion, geoPose.position>>)

----------------------------------------------------------------------------
(* advanced.ts                                                              *)

\* getRelativePose with from and to taken for each other
getRelativePoseSwapped(from, to) == Call("geoPoseToLocalENU", <<from, to.position>>)

\* getRelativePose with the rotation taken in the body frame of from
getRelativePoseInBodyFrame(from, to) ==
  LET local == Call("geoPoseToLocalENU", <<to, from.position>>)
  IN [local EXCEPT !.orientation =
        multiplyQuaternions(conjugateQuaternion(from.quaternion), local.orientation)]

getRelativePose(from, to) == Call("geoPoseToLocalENU", <<to, from.position>>)

applyRelativePose(base, relative) ==
  Call("localENUToGeoPose", <<Prop(relative, "translation"), Prop(relative, "rotation"), base.position>>)

lerp(a, b, t) == FAdd(a, FMul(FSub(b, a), t))

\* the branch slerp takes: "coincident", "near-parallel" or "general", and
\* whether qa was negated first
slerpCos(qa, qb) ==
  FAdd(FAdd(FAdd(FMul(qa.w, qb.w), FMul(qa.x, qb.x)), FMul(qa.y, qb.y)), FMul(qa.z, qb.z))
\* slerp that never takes the shorter arc
slerpFlippedNever(qa, qb) == FALSE

slerpFlipped(qa, qb) == FLt(slerpCos(qa, qb), F0)
slerpBranch(qa, qb) ==
  LET c == IF slerpFlipped(qa, qb) THEN FNeg(slerpCos(qa, qb)) ELSE slerpCos(qa, qb)
  IN IF AbsGe(c, F1) THEN "coincident"
     ELSE IF AbsLt(FSqrt(FSub(F1, FMul(c, c))), FMilli) THEN "near-parallel"
     ELSE "general"

\* the cosHalfTheta slerp's later tests and weights read
slerpCosHalfTheta(qa, qb) ==
  IF slerpFlipped(qa, qb) THEN FNeg(slerpCos(qa, qb)) ELSE slerpCos(qa, qb)

\* slerp whose near-parallel blend is normalized before it is returned
slerpNormalizedBlend(qa, qb, t) ==
  LET flip == slerpFlipped(qa, qb)
      x == IF flip THEN FNeg(qa.x) ELSE qa.x
      y == IF flip THEN FNeg(qa.y) ELSE qa.y
      z == IF flip THEN FNeg(qa.z) ELSE qa.z
      w == IF flip THEN FNeg(qa.w) ELSE qa.w
      cosHalfTheta == IF flip THEN FNeg(slerpCos(qa, qb)) ELSE slerpCos(qa, qb)
      halfTheta == FAcos(cosHalfTheta)
      sinHalfTheta == FSqrt(FSub(F1, FMul(cosHalfTheta, cosHalfTheta)))
      ratioA == FDiv(FSin(FMul(FSub(F1, t), halfTheta)), sinHalfTheta)
      ratioB == FDiv(FSin(FMul(t, halfTheta)), sinHalfTheta)
      blend == Quat(FAdd(FMul(x, FHalf), FMul(qb.x, FHalf)), FAdd(FMul(y, FHalf), FMul(qb.y, FHalf)),
                    FAdd(FMul(z, FHalf), FMul(qb.z, FHalf)), FAdd(FMul(w, FHalf), FMul(qb.w, FHalf)))
      mag == FSqrt(FAdd(FAdd(FAdd(FMul(blend.x, blend.x), FMul(blend.y, blend.y)),
                             FMul(blend.z, blend.z)), FMul(blend.w, blend.w)))
  IN IF AbsGe(cosHalfTheta, F1) THEN qa
     ELSE IF AbsLt(sinHalfTheta, FMilli)
     THEN Quat(FDiv(blend.x, mag), FDiv(blend.y, mag), FDiv(blend.z, mag), FDiv(blend.w, mag))
     ELSE Quat(FAdd(FMul(x, ratioA), FMul(qb.x, ratioB)), FAdd(FMul(y, ratioA), FMul(qb.y, ratioB)),
               FAdd(FMul(z, ratioA), FMul(qb.z, ratioB)), FAdd(FMul(w, ratioA), FMul(qb.w, ratioB)))

\* slerp whose coincident and near-parallel branches follow t
slerpBlendByT(qa, qb, t) ==
  LET flip == slerpFlipped(qa, qb)
      x == IF flip THEN FNeg(qa.x) ELSE qa.x
      y == IF flip THEN FNeg(qa.y) ELSE qa.y
      z == IF flip THEN FNeg(qa.z) ELSE qa.z
      w == IF flip THEN FNeg(qa.w) ELSE qa.w
      cosHalfTheta == IF flip THEN FNeg(slerpCos(qa, qb)) ELSE slerpCos(qa, qb)
      halfTheta == FAcos(cosHalfTheta)
      sinHalfTheta == FSqrt(FSub(F1, FMul(cosHalfTheta, cosHalfTheta)))
      ratioA == FDiv(FSin(FMul(FSub(F1, t), halfTheta)), sinHalfTheta)
      ratioB == FDiv(FSin(FMul(t, halfTheta)), sinHalfTheta)
      u == FSub(F1, t)
  IN IF AbsGe(cosHalfTheta, F1) \/ AbsLt(sinHalfTheta, FMilli)
     THEN Quat(FAdd(FMul(x, u), FMul(qb.x, t)), FAdd(FMul(y, u), FMul(qb.y, t)),
               FAdd(FMul(z, u), FMul(qb.z, t)), FAdd(FMul(w, u), FMul(qb.w, t)))
     ELSE Quat(FAdd(FMul(x, ratioA), FMul(qb.x, ratioB)), FAdd(FMul(y, ratioA), FMul(qb.y, ratioB)),
               FAdd(FMul(z, ratioA), FMul(qb.z, ratioB)), FAdd(FMul(w, ratioA), FMul(qb.w, ratioB)))

slerp(qa, qb, t) ==
  LET flip == slerpFlipped(qa, qb)
      x == IF flip THEN FNeg(qa.x) ELSE qa.x
      y == IF flip THEN FNeg(qa.y) ELSE qa.y
      z == IF flip THEN FNeg(qa.z) ELSE qa.z
      w == IF flip THEN FNeg(qa.w) ELSE qa.w
      cosHalfTheta == IF flip THEN FNeg(slerpCos(qa, qb)) ELSE slerpCos(qa, qb)
      halfTheta == FAcos(cosHalfTheta)
      sinHalfTheta == FSqrt(FSub(F1, FMul(cosHalfTheta, cosHalfTheta)))
      ratioA == FDiv(FSin(FMul(FSub(F1, t), halfTheta)), sinHalfTheta)
      ratioB == FDiv(FSin(FMul(t, halfTheta)), sinHalfTheta)
  IN IF AbsGe(cosHalfTheta, F1) THEN qa
     ELSE IF AbsLt(sinHalfTheta, FMilli)
     THEN Quat(FAdd(FMul(x, FHalf), FMul(qb.x, FHalf)), FAdd(FMul(y, FHalf), FMul(qb.y, FHalf)),
               FAdd(FMul(z, FHalf), FMul(qb.z, FHalf)), FAdd(FMul(w, FHalf), FMul(qb.w, FHalf)))
     ELSE Quat(FAdd(FMul(x, ratioA), FMul(qb.x, ratioB)), FAdd(FMul(y, ratioA), FMul(qb.y, ratioB)),
               FAdd(FMul(z, ratioA), FMul(qb.z, ratioB)), FAdd(FMul(w, ratioA), FMul(qb.w, ratioB)))

\* the orientation interpolatePose hands to ecefToGeoPose
interpolateOrientation(from, to, t) ==
  slerp(Call("geoPoseToECEF", <<from>>).orientation, Call("geoPoseToECEF", <<to>>).orientation, t)

interpolatePose(from, to, t) ==
  LET fromEcef == Call("geoPoseToECEF", <<from>>)
      toEcef == Call("geoPoseToECEF", <<to>>)
      pos == [x |-> lerp(fromEcef.position.x, toEcef.position.x, t),
              y |-> lerp(fromEcef.position.y, toEcef.position.y, t),
              z |-> lerp(fromEcef.position.z, toEcef.position.z, t)]
      q == slerp(fromEcef.orientation, toEcef.orientation, t)
  IN <<fromEcef, toEcef, q, Call("ecefToGeoPose", <<pos, q>>)>>[4]

----------------------------------------------------------------------------
(* GeoPoseBasic.ts and GeoPoseSerialization.ts: normalization               *)

quaternionMagnitude(q) ==
  FSqrt(FAdd(FAdd(FAdd(FMul(q.x, q.x), FMul(q.y, q.y)), FMul(q.z, q.z)), FMul(q.w, q.w)))

\* normalizeQuaternion without its test of the magnitude
normalizeQuaternionUnguarded(q) ==
  LET mag == quaternionMagnitude(q)
  IN Quat(FDiv(q.x, mag), FDiv(q.y, mag), FDiv(q.z, mag), FDiv(q.w, mag))

normalizeQuaternion(q) ==
  LET mag == quaternionMagnitude(q)
  IN IF FEq(mag, F0) THEN identityQuaternion
     ELSE Quat(FDiv(q.x, mag), FDiv(q.y, mag), FDiv(q.z, mag), FDiv(q.w, mag))

normalizeGeoPose(geoPose) ==
  LET q == geoPose.quaternion
      mag == quaternionMagnitude(q)
  IN IF FEq(mag, F0)
     THEN [position |-> geoPose.position, quaternion |-> Quat(F0, F0, F0, F1)]
     ELSE [position |-> geoPose.position,
           quaternion |-> Quat(FDiv(q.x, mag), FDiv(q.y, mag), FDiv(q.z, mag), FDiv(q.w, mag))]

----------------------------------------------------------------------------
(* JavaScript values as JSON.parse produces them                            *)

JNull == [t |-> "null"]
JBool(b) == [t |-> "boolean", v |-> b]
JNum(x) == [t |-> "number", v |-> x]
JStr(s) == [t |-> "string", v |-> s]
JEmptyArr == [t |-> "array", v |-> <<>>]
JObj(fields) == [t |-> "object", v |-> fields]
SyntaxError == [error |-> "SyntaxError"]

\* typeof v
JsTypeof(v) ==
  IF IsUndefined(v) THEN "undefined"
  ELSE IF v.t \in {"null", "array", "object"} THEN "object"
  ELSE v.t

\* !v
JsNot(v) ==
  IF IsUndefined(v) THEN TRUE
  ELSE IF v.t = "null" THEN TRUE
  ELSE IF v.t = "boolean" THEN ~v.v
  ELSE IF v.t = "number" THEN IsNaN(v.v) \/ IsZero(v.v)
  ELSE IF v.t = "string" THEN v.v = ""
  ELSE FALSE

\* v[name]: a TypeError on null and undefined
JsGet(v, name) ==
  IF IsUndefined(v) \/ v.t = "null" THEN TypeError
  ELSE IF v.t = "object" /\ name \in DOMAIN v.v THEN v.v[name]
  ELSE Undefined

\* { ...v }
JsSpread(v) == IF v.t = "object" THEN JObj(v.v) ELSE JObj(<<>>)

\* a JSON text is either malformed or denotes one value; JSON.parse throws a
\* SyntaxError on the first and returns the value of the second
JSONparse(json) == IF json.wellFormed THEN json.value ELSE SyntaxError

----------------------------------------------------------------------------
(* GeoPoseBasic.ts: type guards and JSON constructors                       *)

\* the guard without its test of quaternion.w
isGeoPoseUpToZ(value) ==
  IF JsNot(value) \/ JsTypeof(value) # "object" THEN FALSE
  ELSE IF JsNot(JsGet(value, "position")) \/ JsTypeof(JsGet(value, "position")) # "object"
  THEN FALSE
  ELSE IF JsNot(JsGet(value, "quaternion")) \/ JsTypeof(JsGet(value, "quaternion")) # "object"
  THEN FALSE
  ELSE LET pos == JsGet(value, "position")
           quat == JsGet(value, "quaternion")
       IN /\ JsTypeof(JsGet(pos, "lat")) = "number"
          /\ JsTypeof(JsGet(pos, "lon")) = "number"
          /\ JsTypeof(JsGet(pos, "h")) = "number"
          /\ JsTypeof(JsGet(quat, "x")) = "number"
          /\ JsTypeof(JsGet(quat, "y")) = "number"
          /\ JsTypeof(JsGet(quat, "z")) = "number"

isGeoPose(value) ==
  IF JsNot(value) \/ JsTypeof(value) # "object" THEN FALSE
  ELSE IF JsNot(JsGet(value, "position")) \/ JsTypeof(JsGet(value, "position")) # "object"
  THEN FALSE
  ELSE IF JsNot(JsGet(value, "quaternion")) \/ JsTypeof(JsGet(value, "quaternion")) # "object"
  THEN FALSE
  ELSE LET pos == JsGet(value, "position")
           quat == JsGet(value, "quaternion")
       IN /\ JsTypeof(JsGet(pos, "lat")) = "number"
          /\ JsTypeof(JsGet(pos, "lon")) = "number"
          /\ JsTypeof(JsGet(pos, "h")) = "number"
          /\ JsTypeof(JsGet(quat, "x")) = "number"
          /\ JsTypeof(JsGet(quat, "y")) = "number"
          /\ JsTypeof(JsGet(quat, "z")) = "number"
          /\ JsTypeof(JsGet(quat, "w")) = "number"

isGeoPoseBYPR(value) ==
  IF JsNot(value) \/ JsTypeof(value) # "object" THEN FALSE
  ELSE IF JsNot(JsGet(value, "position")) \/ JsTypeof(JsGet(value, "position")) # "object"
  THEN FALSE
  ELSE IF JsNot(JsGet(value, "angles")) \/ JsTypeof(JsGet(value, "angles")) # "object"
  THEN FALSE
  ELSE LET pos == JsGet(value, "position")
           angles == JsGet(value, "angles")
       IN /\ JsTypeof(JsGet(pos, "lat")) = "number"
          /\ JsTypeof(JsGet(pos, "lon")) = "number"
          /\ JsTypeof(JsGet(pos, "h")) = "number"
          /\ JsTypeof(JsGet(angles, "yaw")) = "number"
          /\ JsTypeof(JsGet(angles, "pitch")) = "number"
          /\ JsTypeof(JsGet(angles, "roll")) = "number"

\* new GeoPoseBasic(pose)
GeoPoseBasic(pose) ==
  [_position |-> JsSpread(JsGet(pose, "position")),
   _quaternion |-> JsSpread(JsGet(pose, "quaternion"))]

fromYPR(position, yaw, pitch, roll) ==
  LET q == yprToQuaternion([position |-> position,
                            angles |-> [yaw |-> yaw.v, pitch |-> pitch.v, roll |-> roll.v]]).quaternion
  IN [_position |-> JsSpread(position),
      _quaternion |-> JObj([x |-> JNum(q.x), y |-> JNum(q.y), z |-> JNum(q.z), w |-> JNum(q.w)])]

\* fromObject that tries the angles before the quaternion
fromObjectAnglesFirst(value) ==
  IF isGeoPoseBYPR(value)
  THEN fromYPR(JsGet(value, "position"), JsGet(JsGet(value, "angles"), "yaw"),
               JsGet(JsGet(value, "angles"), "pitch"), JsGet(JsGet(value, "angles"), "roll"))
  ELSE IF isGeoPose(value) THEN GeoPoseBasic(value)
  ELSE JNull

fromObject(value) ==
  IF isGeoPose(value) THEN GeoPoseBasic(value)
  ELSE IF isGeoPoseBYPR(value)
  THEN fromYPR(JsGet(value, "position"), JsGet(JsGet(value, "angles"), "yaw"),
               JsGet(JsGet(value, "angles"), "pitch"), JsGet(JsGet(value, "angles"), "roll"))
  ELSE JNull

fromJSONWithMode(json, mode) ==
  LET parsed == JSONparse(json)
  IN IF IsError(parsed) THEN JNull
     ELSE IF mode = "bq" THEN (IF isGeoPose(parsed) THEN GeoPoseBasic(parsed) ELSE JNull)
     ELSE IF mode = "ypr"
     THEN (IF isGeoPoseBYPR(parsed)
           THEN fromYPR(JsGet(parsed, "position"), JsGet(JsGet(parsed, "angles"), "yaw"),
                        JsGet(JsGet(parsed, "angles"), "pitch"),
                        JsGet(JsGet(parsed, "angles"), "roll"))
           ELSE JNull)
     ELSE fromObject(parsed)

fromGeoPoseJSON(json) == fromJSONWithMode(json, "bq")
fromGeoPoseYPRJSON(json) == fromJSONWithMode(json, "ypr")
fromJSON(json) == fromJSONWithMode(json, "auto")

----------------------------------------------------------------------------
(* GeoPoseSerialization.ts: deserialization                                 *)

isGeoPoseStructure(obj) ==
  IF JsTypeof(obj) # "object" \/ obj = JNull THEN FALSE
  ELSE IF JsTypeof(JsGet(obj, "position")) # "object" \/ JsGet(obj, "position") = JNull
  THEN FALSE
  ELSE IF \/ JsTypeof(JsGet(JsGet(obj, "position"), "lat")) # "number"
          \/ JsTypeof(JsGet(JsGet(obj, "position"), "lon")) # "number"
          \/ JsTypeof(JsGet(JsGet(obj, "position"), "h")) # "number"
  THEN FALSE
  ELSE IF JsTypeof(JsGet(obj, "quaternion")) # "object" \/ JsGet(obj, "quaternion") = JNull
  THEN FALSE
  ELSE IF \/ JsTypeof(JsGet(JsGet(obj, "quaternion"), "x")) # "number"
          \/ JsTypeof(JsGet(JsGet(obj, "quaternion"), "y")) # "number"
          \/ JsTypeof(JsGet(JsGet(obj, "quaternion"), "z")) # "number"
          \/ JsTypeof(JsGet(JsGet(obj, "quaternion"), "w")) # "number"
  THEN FALSE
  ELSE TRUE

isGeoPoseBYPRStructure(obj) ==
  IF JsTypeof(obj) # "object" \/ obj = JNull THEN FALSE
  ELSE IF JsTypeof(JsGet(obj, "position")) # "object" \/ JsGet(obj, "position") = JNull
  THEN FALSE
  ELSE IF \/ JsTypeof(JsGet(JsGet(obj, "position"), "lat")) # "number"
          \/ JsTypeof(JsGet(JsGet(obj, "position"), "lon")) # "number"
          \/ JsTypeof(JsGet(JsGet(obj, "position"), "h")) # "number"
  THEN FALSE
  ELSE IF JsTypeof(JsGet(obj, "angles")) # "object" \/ JsGet(obj, "angles") = JNull
  THEN FALSE
  ELSE IF \/ JsTypeof(JsGet(JsGet(obj, "angles"), "yaw")) # "number"
          \/ JsTypeof(JsGet(JsGet(obj, "angles"), "pitch")) # "number"
          \/ JsTypeof(JsGet(JsGet(obj, "angles"), "roll")) # "number"
  THEN FALSE
  ELSE TRUE

deserializeGeoPose(json) ==
  LET parsed == JSONparse(json)
  IN IF IsError(parsed) THEN JNull
     ELSE IF ~isGeoPoseStructure(parsed) THEN JNull
     ELSE parsed

deserializeGeoPoseYPR(json) ==
  LET parsed == JSONparse(json)
  IN IF IsError(parsed) THEN JNull
     ELSE IF ~isGeoPoseBYPRStructure(parsed) THEN JNull
     ELSE parsed

----------------------------------------------------------------------------
(* GeoPoseSerialization.ts: validation                                      *)

\* the strings that ToNumber reads as a number
NumericStrings == {"", "12.5"}

\* isFinite(v), the global function: v is taken to a number first
JsIsFinite(v) ==
  IF IsUndefined(v) THEN FALSE
  ELSE IF v.t = "number" THEN IsFinite(v.v)
  ELSE IF v.t = "string" THEN v.v \in NumericStrings
  ELSE IF v.t = "array" THEN v.v = <<>>
  ELSE v.t \in {"null", "boolean"}

\* the errors of a latitude or longitude that is to lie in [-bound, bound]
angleErrors(name, v, bound) ==
  IF JsTypeof(v) # "number" THEN <<name \o " must be a number">>
  ELSE IF FLt(v.v, FNeg(bound)) \/ FGt(v.v, bound)
  THEN <<name \o " must be between -" \o NumberToString(bound) \o " and "
           \o NumberToString(bound) \o " degrees">>
  ELSE IF ~IsFinite(v.v) THEN <<name \o " must be a finite number">>
  ELSE <<>>

heightErrors(v) ==
  IF JsTypeof(v) # "number" THEN <<"position.h must be a number">>
  ELSE IF ~IsFinite(v.v) THEN <<"position.h must be a finite number">>
  ELSE <<>>

positionErrors(position) ==
  IF JsNot(position) THEN <<"Missing 'position' object">>
  ELSE angleErrors("position.lat", JsGet(position, "lat"), Call("FromInt", <<90>>))
         \o angleErrors("position.lon", JsGet(position, "lon"), F180)
         \o heightErrors(JsGet(position, "h"))

numberErrors(name, v) ==
  IF JsTypeof(v) # "number" THEN <<"quaternion." \o name \o " must be a number">> ELSE <<>>

finiteErrors(name, v) ==
  IF ~JsIsFinite(v) THEN <<"quaternion." \o name \o " must be a finite number">> ELSE <<>>

\* the message carries mag.toFixed(6), whose digits are left out here
magnitudeErrors(x, y, z, w) ==
  IF /\ JsTypeof(x) = "number" /\ JsTypeof(y) = "number"
     /\ JsTypeof(z) = "number" /\ JsTypeof(w) = "number"
  THEN LET mag == FSqrt(FAdd(FAdd(FAdd(FMul(x.v, x.v), FMul(y.v, y.v)), FMul(z.v, z.v)),
                             FMul(w.v, w.v)))
       IN IF FGt(FAbs(FSub(mag, F1)), FMilli) THEN <<"Quaternion is not normalized">> ELSE <<>>
  ELSE <<>>

quaternionErrorsUnmeasured(quaternion) ==
  IF JsNot(quaternion) THEN <<"Missing 'quaternion' object">>
  ELSE LET x == JsGet(quaternion, "x")
           y == JsGet(quaternion, "y")
           z == JsGet(quaternion, "z")
           w == JsGet(quaternion, "w")
       IN numberErrors("x", x) \o numberErrors("y", y) \o numberErrors("z", z)
            \o numberErrors("w", w)
            \o finiteErrors("x", x) \o finiteErrors("y", y) \o finiteErrors("z", z)
            \o finiteErrors("w", w)

quaternionErrors(quaternion) ==
  IF JsNot(quaternion) THEN <<"Missing 'quaternion' object">>
  ELSE LET x == JsGet(quaternion, "x")
           y == JsGet(quaternion, "y")
           z == JsGet(quaternion, "z")
           w == JsGet(quaternion, "w")
       IN numberErrors("x", x) \o numberErrors("y", y) \o numberErrors("z", z)
            \o numberErrors("w", w)
            \o finiteErrors("x", x) \o finiteErrors("y", y) \o finiteErrors("z", z)
            \o finiteErrors("w", w)
            \o magnitudeErrors(x, y, z, w)

\* geoPose.position throws a TypeError when geoPose is null or undefined
validateGeoPose(geoPose) ==
  IF IsError(JsGet(geoPose, "position")) THEN TypeError
  ELSE LET errors == positionErrors(JsGet(geoPose, "position"))
                       \o quaternionErrors(JsGet(geoPose, "quaternion"))
       IN [valid |-> Len(errors) = 0, errors |-> errors]

----------------------------------------------------------------------------
(* Deserialization of interchange records                                   *)

\* the JSON documents: a well-formed pose record of one of three forms with one
\* member deleted or replaced by a value of another kind, or a malformed text
JsonForms == {"bq", "ypr", "both"}
JsonSites == {"none", "top", "position", "lat", "lon", "h", "quaternion", "x", "y", "z", "w",
              "angles", "yaw", "pitch", "roll"}
JsonKinds == {"absent", "null", "string", "boolean", "number", "array", "object"}

JsonKindValue(kind) ==
  CASE kind = "null" -> JNull
    [] kind = "string" -> JStr("12.5")
    [] kind = "boolean" -> JBool(TRUE)
    [] kind = "number" -> JNum(F0)
    [] kind = "array" -> JEmptyArr
    [] OTHER -> JObj(<<>>)

JsonEdit(fields, site, kind) ==
  IF site \notin DOMAIN fields THEN fields
  ELSE IF kind = "absent" THEN [f \in DOMAIN fields \ {site} |-> fields[f]]
  ELSE [fields EXCEPT ![site] = JsonKindValue(kind)]

JsonDocument(form, site, kind) ==
  LET position == JObj(JsonEdit([lat |-> JNum(Call("FromInt", <<48>>)), lon |-> JNum(Call("FromInt", <<11>>)),
                                 h |-> JNum(Call("FromInt", <<520>>))], site, kind))
      quaternion == JObj(JsonEdit([x |-> JNum(F0), y |-> JNum(F0), z |-> JNum(FHalf),
                                   w |-> JNum(F1)], site, kind))
      angles == JObj(JsonEdit([yaw |-> JNum(Call("FromInt", <<90>>)), pitch |-> JNum(Call("FromInt", <<10>>)),
                               roll |-> JNum(F0)], site, kind))
      top == IF form = "bq" THEN [position |-> position, quaternion |-> quaternion]
             ELSE IF form = "ypr" THEN [position |-> position, angles |-> angles]
             ELSE [position |-> position, quaternion |-> quaternion, angles |-> angles]
  IN IF site = "top" THEN JsonKindValue(kind) ELSE JObj(JsonEdit(top, site, kind))

\* the poses given to validateGeoPose: a valid pose with one member deleted,
\* replaced by a value that is not a number, or replaced by another number
ValidateSites == {"none", "top", "position", "quaternion", "lat", "lon", "h", "x", "y", "z", "w"}
ValidateNumbers ==
  {"NaN", "Infinity", "-Infinity", "200", "-200", "90", "-90", "180", "-180",
   "1.0009", "1.0011", "0.9991", "0.9989", "huge", "tiny"}
ValidateKinds == (JsonKinds \ {"number"}) \cup ValidateNumbers
ValidateNumber(kind) ==
  CASE kind = "NaN" -> NaN
    [] kind = "Infinity" -> Inf(1)
    [] kind = "-Infinity" -> Inf(-1)
    [] kind = "200" -> Call("FromInt", <<200>>)
    [] kind = "-200" -> Call("FromInt", <<-200>>)
    [] kind = "90" -> Call("FromInt", <<90>>)
    [] kind = "-90" -> Call("FromInt", <<-90>>)
    [] kind = "180" -> Call("FromInt", <<180>>)
    [] kind = "-180" -> Call("FromInt", <<-180>>)
    [] kind = "1.0009" -> Call("Dec", <<1, <<1, 9>>, 4>>)
    [] kind = "1.0011" -> Call("Dec", <<1, <<1, 11>>, 4>>)
    [] kind = "0.9991" -> Call("Dec", <<1, <<9991>>, 4>>)
    [] kind = "0.9989" -> Call("Dec", <<1, <<9989>>, 4>>)
    [] kind = "huge" -> Call("Round", <<1, <<1>>, 700, FALSE>>)
    [] kind = "tiny" -> Call("Round", <<1, <<1>>, -600, FALSE>>)
ValidateValue(kind) ==
  IF kind \in ValidateNumbers THEN JNum(ValidateNumber(kind)) ELSE JsonKindValue(kind)
ValidateEdit(fields, site, kind) ==
  IF site \notin DOMAIN fields THEN fields
  ELSE IF kind = "absent" THEN [f \in DOMAIN fields \ {site} |-> fields[f]]
  ELSE [fields EXCEPT ![site] = ValidateValue(kind)]
ValidateInput(site, kind) ==
  LET position == JObj(ValidateEdit([lat |-> JNum(Call("FromInt", <<48>>)),
                                     lon |-> JNum(Call("FromInt", <<11>>)),
                                     h |-> JNum(Call("FromInt", <<520>>))], site, kind))
      quaternion == JObj(ValidateEdit([x |-> JNum(F0), y |-> JNum(F0), z |-> JNum(F0),
                                       w |-> JNum(F1)], site, kind))
  IN [site |-> site, kind |-> kind,
      geoPose |-> IF site = "top"
                  THEN (IF kind = "absent" THEN Undefined ELSE ValidateValue(kind))
                  ELSE JObj(ValidateEdit([position |-> position, quaternion |-> quaternion],
                                         site, kind))]

JsonText(form, site, kind) ==
  IF site = "top" /\ kind = "absent" THEN [wellFormed |-> FALSE, value |-> JNull]
  ELSE [wellFormed |-> TRUE, value |-> JsonDocument(form, site, kind)]

----------------------------------------------------------------------------
(* The call of a routine by name with the tuple of its arguments.           *)

----------------------------------------------------------------------------
(* GeoPoseBasic.ts: an instance is the record of its two private fields.   *)
(* The constructors and methods below are the typed ones; a spread copies   *)
(* the members of an object, which for a record of numbers is the record.   *)

\* new GeoPoseBasic(pose) and GeoPoseBasic.fromGeoPose(pose)
newGeoPoseBasic(pose) == [_position |-> pose.position, _quaternion |-> pose.quaternion]

\* GeoPoseBasic.fromPosition(position, quaternion), quaternion optional
fromPosition(position, quaternion) ==
  newGeoPoseBasic([position |-> position,
                   quaternion |-> IF IsUndefined(quaternion) THEN identityQuaternion
                                  ELSE normalizeQuaternion(quaternion)])

\* GeoPoseBasic.fromYPR(position, yaw, pitch, roll) on numbers
fromYPRNumbers(position, yaw, pitch, roll) ==
  newGeoPoseBasic(Call("yprToQuaternion",
                       <<[position |-> position,
                          angles |-> [yaw |-> yaw, pitch |-> pitch, roll |-> roll]]>>))

fromECEF(position, orientation) ==
  newGeoPoseBasic(Call("ecefToGeoPose", <<position, orientation>>))

toGeoPose(this) == [position |-> this._position, quaternion |-> this._quaternion]

\* set qx(value), set qy(value), set qz(value), set qw(value): f is x, y, z, w
setComponent(this, f, value) ==
  [this EXCEPT !._quaternion = normalizeQuaternion([this._quaternion EXCEPT ![f] = value])]

setGeoPose(this, pose) ==
  [this EXCEPT !._position = pose.position, !._quaternion = pose.quaternion]

\* setPosition that also puts the orientation back to the identity
setPositionResetting(this, position) ==
  [this EXCEPT !._position = position, !._quaternion = identityQuaternion]

setPosition(this, position) == [this EXCEPT !._position = position]

\* set lat(value), set lon(value), set h(value): f is lat, lon, h
setPositionComponent(this, f, value) == [this EXCEPT !._position[f] = value]

setPositionLatLonHeight(this, lat, lon, h) ==
  setPosition(this, [lat |-> lat, lon |-> lon, h |-> h])

setQuaternionOrientation(this, x, y, z, w) ==
  [this EXCEPT !._quaternion = normalizeQuaternion(Quat(x, y, z, w))]

setOrientation(this, quaternion) ==
  setQuaternionOrientation(this, quaternion.x, quaternion.y, quaternion.z, quaternion.w)

setYPROrientation(this, yaw, pitch, roll) ==
  LET pose == Call("yprToQuaternion",
                   <<[position |-> this._position,
                      angles |-> [yaw |-> yaw, pitch |-> pitch, roll |-> roll]]>>)
  IN [this EXCEPT !._position = pose.position, !._quaternion = pose.quaternion]

translateENU(this, enu) ==
  LET pose == Call("translateGeoPose", <<toGeoPose(this), enu>>)
  IN [this EXCEPT !._position = pose.position, !._quaternion = pose.quaternion]

rotateByQuaternion(this, rotation) ==
  [this EXCEPT !._quaternion = normalizeQuaternion(multiplyQuaternions(rotation, this._quaternion))]

\* the method applyRelativePose(relative)
applyRelativePoseTo(this, relative) ==
  LET pose == Call("applyRelativePose", <<toGeoPose(this), relative>>)
  IN [this EXCEPT !._position = pose.position, !._quaternion = pose.quaternion]

\* the method getRelativePoseTo(target), target a GeoPoseBasic or a GeoPose
getRelativePoseTo(this, target) ==
  LET targetPose == IF "_position" \in DOMAIN target THEN toGeoPose(target) ELSE target
  IN Call("getRelativePose", <<toGeoPose(this), targetPose>>)

normalizeOrientation(this) ==
  [this EXCEPT !._quaternion = normalizeQuaternion(this._quaternion)]

----------------------------------------------------------------------------
(* GeoPoseBasic.ts: objects and references.  A heap is the sequence of the  *)
(* objects allocated so far and a reference is an index into it; an object  *)
(* literal allocates, a spread copies the members into the new object.  The *)
(* members are numbers nothing computes with, written as integers.          *)

\* the reference of the object allocated last
Newest(h) == Len(h)

\* { ...h[r] } allocated
Spread(h, r) == Append(h, h[r])

\* a constructor that keeps the references of pose's members
constructorRefKept(h, pose) ==
  Append(h, [_position |-> h[pose].position, _quaternion |-> h[pose].quaternion])

\* new GeoPoseBasic(pose): the heap with the new instance allocated last
constructorRef(h, pose) ==
  LET h1 == Spread(h, h[pose].position)
      h2 == Spread(h1, h[pose].quaternion)
  IN Append(h2, [_position |-> Newest(h1), _quaternion |-> Newest(h2)])

\* setGeoPose(pose) of the instance this
setGeoPoseRef(h, this, pose) ==
  LET h1 == Spread(h, h[pose].position)
      h2 == Spread(h1, h[pose].quaternion)
  IN [h2 EXCEPT ![this] = [_position |-> Newest(h1), _quaternion |-> Newest(h2)]]

\* setPosition(position)
setPositionRef(h, this, position) ==
  LET h1 == Spread(h, position)
  IN [h1 EXCEPT ![this] = [@ EXCEPT !._position = Newest(h1)]]

\* get position() and get quaternion(): the object returned is the newest
positionRef(h, this) == Spread(h, h[this]._position)
quaternionRef(h, this) == Spread(h, h[this]._quaternion)

\* toGeoPose(): the pose object returned is the newest
toGeoPoseRef(h, this) ==
  LET h1 == Spread(h, h[this]._position)
      h2 == Spread(h1, h[this]._quaternion)
  IN Append(h2, [position |-> Newest(h1), quaternion |-> Newest(h2)])

\* clone(): the instance returned is the newest
cloneRef(h, this) ==
  LET h1 == toGeoPoseRef(h, this)
  IN constructorRef(h1, Newest(h1))

\* set lat(value) of the instance this
setLatRef(h, this, value) == [h EXCEPT ![h[this]._position].lat = value]

----------------------------------------------------------------------------
(* projected.ts.  No function of this file computes with the numbers it is  *)
(* given: they are written as integers here.                                *)

WGS84_PROJ == "EPSG:4326"

\* the systems proj4 knows before any registration, those registerCRS is
\* called with, and one that is never registered
BuiltinCRS == {"EPSG:4326", "EPSG:3857"}
RegistrableCRS == {"EPSG:32632"}
UnknownCRS == {"EPSG:9999"}
EpsgNames == BuiltinCRS \cup RegistrableCRS \cup UnknownCRS

\* what proj4 throws when it is given a system it does not know
Proj4Error == [error |-> "proj4"]

\* the pairs proj4 may return
Proj4Pairs == {[first |-> 7, second |-> 9], [first |-> 0, second |-> 0]}

\* proj4(from, to, coords) with the systems in `known` defined: the outcomes
\* the provider may produce
proj4(known, from, to, coords) ==
  IF from \in known /\ to \in known THEN Proj4Pairs ELSE {Proj4Error}

\* out is the outcome of the call of proj4
positionToProjected(lat, lon, h, epsg, out) ==
  IF IsError(out) THEN out
  ELSE [x |-> out.first, y |-> out.second, z |-> h, epsg |-> epsg]

projectedToPosition(x, y, z, epsg, out) ==
  IF IsError(out) THEN out
  ELSE [lat |-> out.second, lon |-> out.first, h |-> z]

geoPoseToProjectedFlat(geoPose, epsg, out) ==
  LET p == positionToProjected(geoPose.position.lat, geoPose.position.lon,
                               geoPose.position.h, epsg, out)
  IN IF IsError(p) THEN p
     ELSE [x |-> p.x, y |-> p.y, z |-> 0,
           quaternion |-> [f \in DOMAIN geoPose.quaternion |-> geoPose.quaternion[f]],
           epsg |-> epsg]

geoPoseToProjected(geoPose, epsg, out) ==
  LET p == positionToProjected(geoPose.position.lat, geoPose.position.lon,
                               geoPose.position.h, epsg, out)
  IN IF IsError(p) THEN p
     ELSE [x |-> p.x, y |-> p.y, z |-> p.z,
           quaternion |-> [f \in DOMAIN geoPose.quaternion |-> geoPose.quaternion[f]],
           epsg |-> epsg]

projectedToGeoPose(pose, out) ==
  LET p == projectedToPosition(pose.x, pose.y, pose.z, pose.epsg, out)
  IN IF IsError(p) THEN p
     ELSE [position |-> [lat |-> p.lat, lon |-> p.lon, h |-> p.h],
           quaternion |-> [f \in DOMAIN pose.quaternion |-> pose.quaternion[f]]]

\* the zero pair transformProjectedPose would hand on if it caught the
\* failure of the first call
transformProjectedPoseCaught(pose, targetEpsg, out1, out2) ==
  IF IsError(out2) THEN out2
  ELSE [x |-> out2.first, y |-> out2.second, z |-> pose.z,
        quaternion |-> [f \in DOMAIN pose.quaternion |-> pose.quaternion[f]],
        epsg |-> targetEpsg]

\* out1 and out2 are the outcomes of the first and of the second call
transformProjectedPose(pose, targetEpsg, out1, out2) ==
  IF IsError(out1) THEN out1
  ELSE IF IsError(out2) THEN out2
  ELSE [x |-> out2.first, y |-> out2.second, z |-> pose.z,
        quaternion |-> [f \in DOMAIN pose.quaternion |-> pose.quaternion[f]],
        epsg |-> targetEpsg]

\* the zone number without the + 1
getUTMZoneEPSGFromZero(lon, northern) ==
  LET zone == FFloor(FDiv(FAdd(lon, F180), Call("FromInt", <<6>>)))
      base == IF northern THEN Call("FromInt", <<32600>>) ELSE Call("FromInt", <<32700>>)
  IN "EPSG:" \o NumberToString(FAdd(base, zone))

getUTMZoneEPSG(lon, northern) ==
  LET zone == FAdd(FFloor(FDiv(FAdd(lon, F180), Call("FromInt", <<6>>))), F1)
      base == IF northern THEN Call("FromInt", <<32600>>) ELSE Call("FromInt", <<32700>>)
  IN "EPSG:" \o NumberToString(FAdd(base, zone))

getUTMZoneForGeoPose(geoPose) ==
  getUTMZoneEPSG(geoPose.position.lon, FGe(geoPose.position.lat, F0))

\* GeoPoseBasic.getUTMZone()
getUTMZone(this) == getUTMZoneEPSG(this._position.lon, FGe(this._position.lat, F0))

----------------------------------------------------------------------------
(* Arguments of the pose functions                                          *)

\* the number n / 10000, as the literal with four decimals is read
Degrees(n) ==
  IF n < 0 THEN Call("Dec", <<-1, <<(-n) \div 10000, (-n) % 10000>>, 4>>)
  ELSE Call("Dec", <<1, <<n \div 10000, n % 10000>>, 4>>)

\* sqrt(1/2) as Math.SQRT1_2 holds it
FSqrtHalf == Call("Dec", <<1, <<7071, 678, 1186, 5476>>, 16>>)

\* 2^700, whose square is beyond the largest number
FHuge == Call("Round", <<1, <<1>>, 700, FALSE>>)

QuatNames == {"identity", "yaw90", "half", "pitch90"}

QuatNamed(n) ==
  CASE n = "identity" -> Quat(F0, F0, F0, F1)
    [] n = "yaw90" -> Quat(F0, F0, FSqrtHalf, FSqrtHalf)
    [] n = "half" -> Quat(FHalf, FHalf, FHalf, FHalf)
    [] n = "pitch90" -> Quat(F0, FSqrtHalf, F0, FSqrtHalf)
    [] n = "double" -> Quat(F0, F0, F0, F2)
    [] n = "zero" -> Quat(F0, F0, F0, F0)
    [] n = "huge" -> Quat(FHuge, FHuge, FHuge, FHuge)

\* a pose at lat / 10000 and lon / 10000 degrees, h metres
PoseAt(lat, lon, h, qn) ==
  [position |-> [lat |-> Degrees(lat), lon |-> Degrees(lon), h |-> Call("FromInt", <<h>>)],
   quaternion |-> QuatNamed(qn)]

EnuNames == {"none", "east", "far", "climb"}

EnuNamed(n) ==
  CASE n = "none" -> [east |-> F0, north |-> F0, up |-> F0]
    [] n = "east" -> [east |-> Call("FromInt", <<1000>>), north |-> F0, up |-> F0]
    [] n = "far" -> [east |-> Call("FromInt", <<1000000>>), north |-> Call("FromInt", <<-250000>>), up |-> F0]
    [] n = "climb" -> [east |-> F0, north |-> Call("FromInt", <<100>>), up |-> Call("FromInt", <<10>>)]

\* longitudes, in units of 1/10000 degree: the two of the documentation, the
\* ends of the range, zone borders, and UTMSteps + 1 more across the range
UTMSteps == 29
UTMLons ==
  {107522, 1512093, -1800000, 1800000, 0, -1, 59999, 60000, -1799999}
    \cup {k * 123457 - 1790000 : k \in 0..UTMSteps}

\* tenThousandths is the longitude as written, lon the number it is read as
UTMInput(n, northern) == [lon |-> Degrees(n), northern |-> northern, tenThousandths |-> n]

\* ECEF coordinates in metres: points on the axis of the earth and at its
\* centre among them
EcefXs == {0, 4000000, -2500000}
EcefYs == {0, 800000}
EcefZs == {0, 4700000, 6356752, -6356752}
EcefInput(x, y, z) ==
  [x |-> Call("FromInt", <<x>>), y |-> Call("FromInt", <<y>>), z |-> Call("FromInt", <<z>>)]

\* matrices: the ENU to ECEF rotations of a grid of latitudes and longitudes
\* in degrees, and diagonal matrices with equal and unequal elements
MatrixLats == {-90, -45, 0, 45, 90}
MatrixLons == {-180, -135, -90, -45, 0, 45, 90, 135, 180}
MatrixHalves == {-2, -1, 0, 1, 2}
RotationInput(lat, lon) ==
  [kind |-> "rotation", lat |-> lat, lon |-> lon,
   m |-> Call("enuToEcefMatrix",
              <<Call("degToRad", <<Call("FromInt", <<lat>>)>>),
                Call("degToRad", <<Call("FromInt", <<lon>>)>>)>>)]
DiagonalInput(a, b, c) ==
  LET D(n) == IF n < 0 THEN Call("Dec", <<-1, <<5 * (-n)>>, 1>>)
              ELSE Call("Dec", <<1, <<5 * n>>, 1>>)
  IN [kind |-> "diagonal", halves |-> <<a, b, c>>,
      m |-> <<D(a), F0, F0, F0, D(b), F0, F0, F0, D(c)>>]

\* components of the quaternions given to quaternionToYPR: finite numbers,
\* those of a pitch of 90 degrees and numbers whose products overflow among them
ComponentNames == {"0", "1/2", "-1", "sqrt1/2", "huge"}
ComponentNamed(n) ==
  CASE n = "0" -> F0
    [] n = "1/2" -> FHalf
    [] n = "-1" -> FNeg(F1)
    [] n = "sqrt1/2" -> FSqrtHalf
    [] n = "huge" -> FHuge
YPRInput(x, y, z, w) ==
  [position |-> [lat |-> F0, lon |-> F0, h |-> F0],
   quaternion |-> Quat(ComponentNamed(x), ComponentNamed(y), ComponentNamed(z),
                       ComponentNamed(w))]

\* components of the quaternions given to the normalizations: zero, numbers
\* whose squares underflow to zero and numbers whose squares overflow among them
FTiny == Call("Round", <<1, <<1>>, -600, FALSE>>)
NormalNames == {"0", "tiny", "1/2", "-1", "3", "huge"}
NormalNamed(n) ==
  CASE n = "0" -> F0
    [] n = "tiny" -> FTiny
    [] n = "1/2" -> FHalf
    [] n = "-1" -> FNeg(F1)
    [] n = "3" -> Call("FromInt", <<3>>)
    [] n = "huge" -> FHuge
NormalInput(x, y, z, w) ==
  [position |-> [lat |-> Call("FromInt", <<45>>), lon |-> Call("FromInt", <<-120>>), h |-> F1],
   quaternion |-> Quat(NormalNamed(x), NormalNamed(y), NormalNamed(z), NormalNamed(w))]

\* positions, in units of 1/10000 degree and in metres: the poles, the
\* antimeridian and the places of the test data among them
RoundTripLats == {-900000, -338688, 0, 450000, 899999, 900000}
RoundTripLons == {-1800000, 0, 1512093, 1800000}
RoundTripHeights == {-400, 0, 9000}

\* origins and nearby targets, in units of 1/10000 degree and in metres
LocalOrigins == {<<0, 0, 0>>, <<481234, 115678, 500>>, <<-338688, 1512093, 50>>}
LocalOffsets == {0, 1, -100}
LocalInput(o, dlat, dlon) ==
  [origin |-> PoseAt(o[1], o[2], o[3], "identity"),
   target |-> PoseAt(o[1] + dlat, o[2] + dlon, o[3] + 20, "yaw90")]

\* yaw, pitch and roll in whole degrees, inside and outside the ranges of
\* atan2 and asin, the pitch never at 90 or -90
AngleYaws == {-180, -90, 0, 45, 179, 180, 270}
AnglePitches == {-89, -45, 0, 45, 89, 120}
AngleRolls == {-180, -179, 0, 45, 200}
AngleInput(yaw, pitch, roll) ==
  [position |-> [lat |-> F0, lon |-> F0, h |-> F0],
   angles |-> [yaw |-> Call("FromInt", <<yaw>>), pitch |-> Call("FromInt", <<pitch>>),
               roll |-> Call("FromInt", <<roll>>)],
   degrees |-> [yaw |-> yaw, pitch |-> pitch, roll |-> roll]]

\* the poses a and b given to interpolatePose: b at the place of a, near it
\* or far from it; the quaternion of b that of a, its negative, or another
\* one or its negative
InterpPlaces == {"same", "near", "far"}
InterpQuats == {"identity", "yaw90", "half"}
InterpSigns == {1, -1}
InterpInput(place, qa, qb, sign, t) ==
  LET q == QuatNamed(qb)
  IN [a |-> PoseAt(481234, 115678, 500, qa),
      b |-> [position |-> (CASE place = "same" -> PoseAt(481234, 115678, 500, qa)
                             [] place = "near" -> PoseAt(481300, 115700, 520, qa)
                             [] place = "far" -> PoseAt(-338688, 1512093, 50, qa)).position,
             quaternion |-> IF sign = 1 THEN q
                            ELSE Quat(FNeg(q.x), FNeg(q.y), FNeg(q.z), FNeg(q.w))],
      t |-> Call("FromInt", <<t>>)]

\* the relative poses given to applyRelativePose: an object with translation
\* and rotation, and an object with the members geoPoseToLocalENU returns
RelativeNames == {"east", "returned"}
RelativeNamed(n) ==
  CASE n = "east" -> [translation |-> EnuNamed("east"), rotation |-> QuatNamed("yaw90")]
    [] n = "returned" -> [position |-> EnuNamed("east"), orientation |-> QuatNamed("yaw90")]
DelegateInput(o, dlat, dlon, rn) ==
  [from |-> PoseAt(o[1], o[2], o[3], "half"),
   to |-> PoseAt(o[1] + dlat, o[2] + dlon, o[3] + 20, "yaw90"),
   relative |-> RelativeNamed(rn)]

\* a place in whole degrees with its angles in radians, and a pose standing there
ConjugateQuats == {"identity", "half"}
ConjugateInput(lat, lon, qn) ==
  [lat |-> lat, lon |-> lon,
   latRad |-> Call("degToRad", <<Call("FromInt", <<lat>>)>>),
   lonRad |-> Call("degToRad", <<Call("FromInt", <<lon>>)>>),
   pose |-> Call("PoseAt", <<lat * 10000, lon * 10000, 0, qn>>)]

\* the quaternions given to slerp: unit ones, one of length 2, and one turned
\* from the identity by a half angle of 0.0005 rad
SlerpNames == {"identity", "yaw90", "half", "double", "near"}
SlerpNamed(n) ==
  IF n = "near"
  THEN Quat(F0, F0, Call("Dec", <<1, <<5>>, 4>>), Call("Dec", <<1, <<9999, 9987, 5000>>, 12>>))
  ELSE QuatNamed(n)
\* t = quarters / 4
SlerpQuarters == {0, 1, 4}
SlerpInput(qa, qb, sign) ==
  LET q == SlerpNamed(qb)
  IN [qa |-> SlerpNamed(qa),
      qb |-> IF sign = 1 THEN q ELSE Quat(FNeg(q.x), FNeg(q.y), FNeg(q.z), FNeg(q.w))]

\* poses at the longitudes of UTMLons, south of, on and north of the equator
UTMPoseLats == {-338688, 0, 481234}
UTMPoseInput(lat, n) ==
  [pose |-> PoseAt(lat, n, 0, "identity"), tenThousandths |-> n, north |-> lat >= 0]

\* a position to stand at and a pose to look at; the quaternion of the pose
\* standing there is chosen at each call
RelativeFroms == {"identity", "yaw90", "zero"}
RelativeFunctions == {"getRelativePose", "getRelativePoseTo"}
RelativeInput(o, dlat) ==
  [position |-> PoseAt(o[1], o[2], o[3], "identity").position,
   to |-> PoseAt(o[1] + dlat, o[2] + 1, o[3] + 20, "yaw90")]

\* the quaternions multiplied: unit ones and one of no particular length
AlgebraNames == {"identity", "yaw90", "pitch90", "half", "skew"}
AlgebraNamed(n) ==
  IF n = "skew"
  THEN Quat(Call("Dec", <<1, <<1>>, 1>>), Call("Dec", <<-1, <<2>>, 1>>),
            Call("Dec", <<1, <<3>>, 1>>), Call("FromInt", <<4>>))
  ELSE QuatNamed(n)
AlgebraInput(a, b, c) == [a |-> AlgebraNamed(a), b |-> AlgebraNamed(b), c |-> AlgebraNamed(c)]

\* the two products a law of the product compares, on the quaternions of q
ProductPair(law, q) ==
  CASE law = "identity" ->
         [left |-> Call("multiplyQuaternions", <<identityQuaternion, q.a>>),
          right |-> Call("multiplyQuaternions", <<q.a, identityQuaternion>>)]
    [] law = "commuted" ->
         [left |-> Call("multiplyQuaternions", <<q.a, q.b>>),
          right |-> Call("multiplyQuaternions", <<q.b, q.a>>)]
    [] law = "associated" ->
         [left |-> Call("multiplyQuaternions",
                        <<Call("multiplyQuaternions", <<q.a, q.b>>), q.c>>),
          right |-> Call("multiplyQuaternions",
                         <<q.a, Call("multiplyQuaternions", <<q.b, q.c>>)>>)]
    [] law = "conjugated" ->
         [left |-> Call("multiplyQuaternions", <<q.a, conjugateQuaternion(q.a)>>),
          right |-> Call("multiplyQuaternions", <<conjugateQuaternion(q.a), q.a>>)]

\* what SpecConjugate's steps compute at the place a, r the record so far
ConjugateCall(step, a, r) ==
  CASE step = "getEcefToEnuRotation" ->
         [transposed |-> Call("getEcefToEnuRotation", <<a.latRad, a.lonRad>>),
          branch |-> Call("matrixToQuaternionRun",
                          <<Call("enuToEcefMatrix", <<a.latRad, a.lonRad>>)>>).branch]
    [] step = "conjugateQuaternion" ->
         [transposed |-> r.transposed, branch |-> r.branch,
          conjugated |-> conjugateQuaternion(
                           Call("getEnuToEcefRotation", <<a.latRad, a.lonRad>>))]
    [] step = "roundTrip" ->
         LET ecef == Call("geoPoseToECEF", <<a.pose>>)
         IN [transposed |-> r.transposed, branch |-> r.branch, conjugated |-> r.conjugated,
             back |-> Call("ecefToGeoPose", <<ecef.position, ecef.orientation>>)]

\* interpolatePose(a, b, t) with the orientation it hands to ecefToGeoPose
\* and the branch slerp takes
InterpolateCall(a, b, t) ==
  [q |-> Call("interpolateOrientation", <<a, b, Call("FromInt", <<t>>)>>),
   pose |-> Call("interpolatePose", <<a, b, Call("FromInt", <<t>>)>>),
   branch |-> Call("interpolateBranch", <<a, b>>)]

\* getRelativePose(from, to) or new GeoPoseBasic(from).getRelativePoseTo(to),
\* from at position with the quaternion named qn
RelativeCall(f, position, qn, to) ==
  LET from == [position |-> position, quaternion |-> QuatNamed(qn)]
  IN [from |-> from,
      relative |-> IF f = "getRelativePose" THEN Call("getRelativePose", <<from, to>>)
                   ELSE Call("getRelativePoseTo", <<newGeoPoseBasic(from), to>>)]

TranslateLats == {0, 451234, -338688}
TranslateLons == {0, 107522, 1512093}

TranslateInput(lat, lon, qn, en) == [pose |-> PoseAt(lat, lon, 100, qn), enu |-> EnuNamed(en)]

----------------------------------------------------------------------------
(* The core functions called by two callers on the same argument objects    *)

CoreFunctions ==
  {"yprToQuaternion", "quaternionToYPR", "geoPoseToECEF", "ecefToGeoPose",
   "geoPoseToLocalENU", "localENUToGeoPose", "translateGeoPose", "getRelativePose",
   "applyRelativePose", "interpolatePose"}

\* the objects the callers hold and pass
CoreArgs ==
  [from |-> PoseAt(481234, 115678, 500, "yaw90"),
   to |-> PoseAt(481300, 115700, 520, "half"),
   ypr |-> [position |-> [lat |-> Degrees(481234), lon |-> Degrees(115678), h |-> F0],
            angles |-> [yaw |-> Call("FromInt", <<30>>), pitch |-> Call("FromInt", <<10>>),
                        roll |-> Call("FromInt", <<-5>>)]],
   ecef |-> [x |-> Call("FromInt", <<4000000>>), y |-> Call("FromInt", <<800000>>),
             z |-> Call("FromInt", <<4700000>>)],
   enu |-> EnuNamed("climb"),
   relative |-> [translation |-> EnuNamed("east"), rotation |-> QuatNamed("yaw90")],
   t |-> FQuarter]

\* what function f returns when it is given the objects a
CoreCall(f, a) ==
  CASE f = "yprToQuaternion" -> Call("yprToQuaternion", <<a.ypr>>)
    [] f = "quaternionToYPR" -> Call("quaternionToYPR", <<a.from>>)
    [] f = "geoPoseToECEF" -> Call("geoPoseToECEF", <<a.from>>)
    [] f = "ecefToGeoPose" -> Call("ecefToGeoPose", <<a.ecef, a.to.quaternion>>)
    [] f = "geoPoseToLocalENU" -> Call("geoPoseToLocalENU", <<a.to, a.from.position>>)
    [] f = "localENUToGeoPose" ->
         Call("localENUToGeoPose", <<a.enu, a.from.quaternion, a.from.position>>)
    [] f = "translateGeoPose" -> Call("translateGeoPose", <<a.from, a.enu>>)
    [] f = "getRelativePose" -> Call("getRelativePose", <<a.from, a.to>>)
    [] f = "applyRelativePose" -> Call("applyRelativePose", <<a.from, a.relative>>)
    [] f = "interpolatePose" -> Call("interpolatePose", <<a.from, a.to, a.t>>)

\* the conversions that return a quaternion, and the objects they are given:
\* unit quaternions, an ECEF point on the surface, at the centre of the earth
\* or on its axis
UnitFunctions ==
  {"yprToQuaternion", "geoPoseToECEF", "ecefToGeoPose", "geoPoseToLocalENU",
   "localENUToGeoPose", "getRelativePose", "applyRelativePose", "interpolatePose",
   "geoPoseToProjected", "projectedToGeoPose"}
UnitEcefs == {"surface", "centre", "axis"}
UnitQuats == {"yaw90", "identity"}
UnitArgs(e, qn) ==
  [CoreArgs EXCEPT
     !.from = PoseAt(481234, 115678, 500, qn),
     !.ecef = CASE e = "surface" -> @
                [] e = "centre" -> [x |-> F0, y |-> F0, z |-> F0]
                [] e = "axis" -> [x |-> F0, y |-> F0, z |-> Call("FromInt", <<6356752>>)]]
UnitCall(f, a) ==
  CASE f = "geoPoseToProjected" ->
         geoPoseToProjected(a.from, "EPSG:3857", [first |-> 1, second |-> 2])
    [] f = "projectedToGeoPose" ->
         projectedToGeoPose([x |-> 1, y |-> 2, z |-> 3, quaternion |-> a.to.quaternion,
                             epsg |-> "EPSG:3857"], [first |-> 1, second |-> 2])
    [] OTHER -> Call("CoreCall", <<f, a>>)

\* the argument objects after a call that overwrote the quaternion it was
\* given with the one it returns
CoreArgsAfterInPlace(f, a) ==
  IF f = "translateGeoPose" THEN [a EXCEPT !.from.quaternion = QuatNamed("identity")] ELSE a

\* the argument objects after a call of f: no function assigns to a property
\* of a parameter or to a binding of its module
CoreArgsAfter(f, a) == a

----------------------------------------------------------------------------
(* Arguments and calls of the constructors and methods of GeoPoseBasic      *)

BasicPoseQuats == {"yaw90", "double", "zero"}
BasicArgQuats == {"half", "huge", "double"}

\* the pose an instance is made of, and the arguments its methods are given
BasicInput(pq, aq) ==
  [pose |-> PoseAt(481234, 115678, 500, pq),
   quaternion |-> QuatNamed(aq),
   yaw |-> Call("FromInt", <<30>>), pitch |-> Call("FromInt", <<10>>),
   roll |-> Call("FromInt", <<-5>>),
   ecef |-> [x |-> Call("FromInt", <<4000000>>), y |-> Call("FromInt", <<800000>>),
             z |-> Call("FromInt", <<4700000>>)],
   enu |-> EnuNamed("climb"),
   relative |-> [translation |-> EnuNamed("east"), rotation |-> QuatNamed(aq)]]

Constructors == {"new", "fromGeoPose", "fromPosition", "fromYPR", "fromECEF"}

ComponentSetters == {"set qx", "set qy", "set qz", "set qw"}

Mutators ==
  ComponentSetters \cup
    {"setQuaternionOrientation", "setOrientation", "rotateByQuaternion", "normalizeOrientation",
     "setGeoPose", "setYPROrientation", "translateENU", "applyRelativePose"}

\* the instance after constructor or method m is called with the arguments a;
\* this is the instance before a method
BasicCall(m, this, a) ==
  CASE m \in {"new", "fromGeoPose"} -> newGeoPoseBasic(a.pose)
    [] m = "fromPosition" -> fromPosition(a.pose.position, a.quaternion)
    [] m = "fromYPR" -> fromYPRNumbers(a.pose.position, a.yaw, a.pitch, a.roll)
    [] m = "fromECEF" -> fromECEF(a.ecef, a.quaternion)
    [] m = "set qx" -> setComponent(this, "x", a.quaternion.x)
    [] m = "set qy" -> setComponent(this, "y", a.quaternion.y)
    [] m = "set qz" -> setComponent(this, "z", a.quaternion.z)
    [] m = "set qw" -> setComponent(this, "w", a.quaternion.w)
    [] m = "setQuaternionOrientation" ->
         setQuaternionOrientation(this, a.quaternion.x, a.quaternion.y, a.quaternion.z,
                                  a.quaternion.w)
    [] m = "setOrientation" -> setOrientation(this, a.quaternion)
    [] m = "rotateByQuaternion" -> rotateByQuaternion(this, a.quaternion)
    [] m = "normalizeOrientation" -> normalizeOrientation(this)
    [] m = "setGeoPose" ->
         setGeoPose(this, [position |-> a.pose.position, quaternion |-> a.quaternion])
    [] m = "setYPROrientation" -> setYPROrientation(this, a.yaw, a.pitch, a.roll)
    [] m = "translateENU" -> translateENU(this, a.enu)
    [] m = "applyRelativePose" -> applyRelativePoseTo(this, a.relative)

\* the arguments of BasicInput with a second position to move to
FrameInput(pq, aq) ==
  [position |-> PoseAt(-338688, 1512093, 50, "identity").position] @@ BasicInput(pq, aq)

PositionMutators == {"set lat", "set lon", "set h", "setPosition", "setPositionLatLonHeight"}

OrientationMutators ==
  ComponentSetters \cup
    {"setQuaternionOrientation", "setOrientation", "setYPROrientation", "rotateByQuaternion",
     "normalizeOrientation"}

\* the instance after the position mutator m is called with the arguments a
PositionCall(m, this, a) ==
  CASE m = "set lat" -> setPositionComponent(this, "lat", a.position.lat)
    [] m = "set lon" -> setPositionComponent(this, "lon", a.position.lon)
    [] m = "set h" -> setPositionComponent(this, "h", a.position.h)
    [] m = "setPosition" -> setPosition(this, a.position)
    [] m = "setPositionLatLonHeight" ->
         setPositionLatLonHeight(this, a.position.lat, a.position.lon, a.position.h)

Call(f, a) ==
  CASE f = "Round" -> Round(a[1], a[2], a[3], a[4])
    [] f = "BMul" -> BMul(a[1], a[2])
    [] f = "BDivMod" -> BDivMod(a[1], a[2])
    [] f = "BSqrt" -> BSqrt(a[1])
    [] f = "BDivLimb" -> BDivLimb(a[1], a[2], a[3], a[4])
    [] f = "BSqrtStep" -> BSqrtStep(a[1], a[2])
    [] f = "TaylorStep" -> TaylorStep(a[1], a[2], a[3], a[4])
    [] f = "AtanStep" -> AtanStep(a[1], a[2], a[3])
    [] f = "AtanRatio" -> AtanRatio(a[1], a[2])
    [] f = "SinFix" -> SinFix(a[1])
    [] f = "CosFix" -> CosFix(a[1])
    [] f = "Reduce" -> Reduce(a[1])
    [] f = "FromInt" -> FromInt(a[1])
    [] f = "Dec" -> Dec(a[1], a[2], a[3])
    [] f = "FAdd" -> RoundedAdd(a[1], a[2])
    [] f = "FMul" -> RoundedMul(a[1], a[2])
    [] f = "FDiv" -> RoundedDiv(a[1], a[2])
    [] f = "FSqrt" -> RoundedSqrt(a[1])
    [] f = "FSin" -> RoundedSin(a[1])
    [] f = "FCos" -> RoundedCos(a[1])
    [] f = "FAtan2" -> RoundedAtan2(a[1], a[2])
    [] f = "FAsin" -> RoundedAsin(a[1])
    [] f = "FAcos" -> RoundedAcos(a[1])
    [] f = "JsonText" -> JsonText(a[1], a[2], a[3])
    [] f = "fromJSON" -> fromJSON(a[1])
    [] f = "fromGeoPoseJSON" -> fromGeoPoseJSON(a[1])
    [] f = "fromGeoPoseYPRJSON" -> fromGeoPoseYPRJSON(a[1])
    [] f = "deserializeGeoPose" -> deserializeGeoPose(a[1])
    [] f = "deserializeGeoPoseYPR" -> deserializeGeoPoseYPR(a[1])
    [] f = "yprToQuaternion" -> yprToQuaternion(a[1])
    [] f = "quaternionToYPR" -> quaternionToYPR(a[1])
    [] f = "normalizeQuaternion" -> normalizeQuaternion(a[1])
    [] f = "normalizeGeoPose" -> normalizeGeoPose(a[1])
    [] f = "geoPoseToECEF" -> geoPoseToECEF(a[1])
    [] f = "ecefToGeoPose" -> ecefToGeoPose(a[1], a[2])
    [] f = "ecefIterations" -> ecefIterations(a[1])
    [] f = "ecefIteration" -> ecefIteration(a[1], a[2], a[3])
    [] f = "geoPoseToLocalENU" -> geoPoseToLocalENU(a[1], a[2])
    [] f = "localENUToGeoPose" -> localENUToGeoPose(a[1], a[2], a[3])
    [] f = "getRelativePose" -> getRelativePose(a[1], a[2])
    [] f = "applyRelativePose" -> applyRelativePose(a[1], a[2])
    [] f = "interpolatePose" -> interpolatePose(a[1], a[2], a[3])
    [] f = "translateGeoPose" -> translateGeoPose(a[1], a[2])
    [] f = "ConjugateCall" -> ConjugateCall(a[1], a[2], a[3])
    [] f = "InterpolateCall" -> InterpolateCall(a[1], a[2], a[3])
    [] f = "RelativeCall" -> RelativeCall(a[1], a[2], a[3], a[4])
    [] f = "AlgebraInput" -> AlgebraInput(a[1], a[2], a[3])
    [] f = "multiplyQuaternions" -> multiplyQuaternions(a[1], a[2])
    [] f = "ProductPair" -> ProductPair(a[1], a[2])
    [] f = "ValidateInput" -> ValidateInput(a[1], a[2])
    [] f = "validateGeoPose" -> validateGeoPose(a[1])
    [] f = "fromObject" -> fromObject(a[1])
    [] f = "FrameInput" -> FrameInput(a[1], a[2])
    [] f = "PositionCall" -> PositionCall(a[1], a[2], a[3])
    [] f = "RelativeInput" -> RelativeInput(a[1], a[2])
    [] f = "getRelativePoseTo" -> getRelativePoseTo(a[1], a[2])
    [] f = "QuatNamed" -> QuatNamed(a[1])
    [] f = "UTMPoseInput" -> UTMPoseInput(a[1], a[2])
    [] f = "getUTMZoneForGeoPose" -> getUTMZoneForGeoPose(a[1])
    [] f = "getUTMZone" -> getUTMZone(a[1])
    [] f = "interpolateOrientation" -> interpolateOrientation(a[1], a[2], a[3])
    [] f = "interpolateBranch" ->
         slerpBranch(Call("geoPoseToECEF", <<a[1]>>).orientation,
                     Call("geoPoseToECEF", <<a[2]>>).orientation)
    [] f = "SlerpInput" -> SlerpInput(a[1], a[2], a[3])
    [] f = "slerp" -> slerp(a[1], a[2], a[3])
    [] f = "slerpCosHalfTheta" -> slerpCosHalfTheta(a[1], a[2])
    [] f = "slerpBranch" -> slerpBranch(a[1], a[2])
    [] f = "ConjugateInput" -> ConjugateInput(a[1], a[2], a[3])
    [] f = "getEnuToEcefRotation" -> getEnuToEcefRotation(a[1], a[2])
    [] f = "getEcefToEnuRotation" -> getEcefToEnuRotation(a[1], a[2])
    [] f = "DelegateInput" -> DelegateInput(a[1], a[2], a[3], a[4])
    [] f = "InterpInput" -> InterpInput(a[1], a[2], a[3], a[4], a[5])
    [] f = "AngleInput" -> AngleInput(a[1], a[2], a[3])
    [] f = "LocalInput" -> LocalInput(a[1], a[2], a[3])
    [] f = "PoseAt" -> PoseAt(a[1], a[2], a[3], a[4])
    [] f = "UnitArgs" -> UnitArgs(a[1], a[2])
    [] f = "UnitCall" -> UnitCall(a[1], a[2])
    [] f = "ecefResult" -> ecefResult(a[1], a[2], a[3])
    [] f = "NormalInput" -> NormalInput(a[1], a[2], a[3], a[4])
    [] f = "normalizeQuaternion" -> normalizeQuaternion(a[1])
    [] f = "normalizeGeoPose" -> normalizeGeoPose(a[1])
    [] f = "YPRInput" -> YPRInput(a[1], a[2], a[3], a[4])
    [] f = "matrixToQuaternionRun" -> matrixToQuaternionRun(a[1])
    [] f = "matrixToQuaternion" ->
         matrixToQuaternion(a[1][1], a[1][2], a[1][3], a[1][4], a[1][5], a[1][6],
                            a[1][7], a[1][8], a[1][9])
    [] f = "enuToEcefMatrix" -> enuToEcefMatrix(a[1], a[2])
    [] f = "degToRad" -> degToRad(a[1])
    [] f = "RotationInput" -> RotationInput(a[1], a[2])
    [] f = "DiagonalInput" -> DiagonalInput(a[1], a[2], a[3])
    [] f = "ecefStart" -> ecefStart(a[1])
    [] f = "EcefInput" -> EcefInput(a[1], a[2], a[3])
    [] f = "BasicCall" -> BasicCall(a[1], a[2], a[3])
    [] f = "BasicInput" -> BasicInput(a[1], a[2])
    [] f = "CoreCall" -> CoreCall(a[1], a[2])
    [] f = "CoreArgs" -> CoreArgs
    [] f = "CoreArgsAfter" -> CoreArgsAfter(a[1], a[2])
    [] f = "getUTMZoneEPSG" -> getUTMZoneEPSG(a[1], a[2])
    [] f = "UTMInput" -> UTMInput(a[1], a[2])
    [] f = "TranslateInput" -> TranslateInput(a[1], a[2], a[3], a[4])

VARIABLES op, arg, res, crs, heap

vars == <<op, arg, res, crs, heap>>

InitJson ==
  /\ op = "json"
  /\ \E form \in JsonForms, site \in JsonSites, kind \in JsonKinds :
       arg = Call("JsonText", <<form, site, kind>>)
  /\ res = Undefined
  /\ crs = BuiltinCRS
  /\ heap = <<>>

FromJSON ==
  /\ op = "json"
  /\ op' = "fromJSON"
  /\ res' = Call("fromJSON", <<arg>>)
  /\ UNCHANGED <<arg, crs, heap>>

FromGeoPoseJSON ==
  /\ op = "json"
  /\ op' = "fromGeoPoseJSON"
  /\ res' = Call("fromGeoPoseJSON", <<arg>>)
  /\ UNCHANGED <<arg, crs, heap>>

FromGeoPoseYPRJSON ==
  /\ op = "json"
  /\ op' = "fromGeoPoseYPRJSON"
  /\ res' = Call("fromGeoPoseYPRJSON", <<arg>>)
  /\ UNCHANGED <<arg, crs, heap>>

DeserializeGeoPose ==
  /\ op = "json"
  /\ op' = "deserializeGeoPose"
  /\ res' = Call("deserializeGeoPose", <<arg>>)
  /\ UNCHANGED <<arg, crs, heap>>

DeserializeGeoPoseYPR ==
  /\ op = "json"
  /\ op' = "deserializeGeoPoseYPR"
  /\ res' = Call("deserializeGeoPoseYPR", <<arg>>)
  /\ UNCHANGED <<arg, crs, heap>>

NextJson ==
  \/ FromJSON
  \/ FromGeoPoseJSON
  \/ FromGeoPoseYPRJSON
  \/ DeserializeGeoPose
  \/ DeserializeGeoPoseYPR

SpecJson == InitJson /\ [][NextJson]_vars

\* the members a record must have, each of type number
HasNumbers(v, names) ==
  /\ ~IsUndefined(v)
  /\ v.t = "object"
  /\ \A n \in names : n \in DOMAIN v.v /\ v.v[n].t = "number"

HasMember(v, name, names) ==
  /\ ~IsUndefined(v)
  /\ v.t = "object"
  /\ name \in DOMAIN v.v
  /\ HasNumbers(v.v[name], names)

HasPosition(v) == HasMember(v, "position", {"lat", "lon", "h"})
HasQuaternion(v) == HasMember(v, "quaternion", {"x", "y", "z", "w"})
HasAngles(v) == HasMember(v, "angles", {"yaw", "pitch", "roll"})

\* the input of a deserializer is one the claim says must be refused
Refusable ==
  \/ ~arg.wellFormed
  \/ ~HasPosition(arg.value)
  \/ op \in {"fromGeoPoseJSON", "deserializeGeoPose"} /\ ~HasQuaternion(arg.value)
  \/ op \in {"fromGeoPoseYPRJSON", "deserializeGeoPoseYPR"} /\ ~HasAngles(arg.value)
  \/ op = "fromJSON" /\ ~HasQuaternion(arg.value) /\ ~HasAngles(arg.value)

\* a returned pose has every numeric member
Populated ==
  IF op \in {"fromJSON", "fromGeoPoseJSON", "fromGeoPoseYPRJSON"}
  THEN /\ HasNumbers(res._position, {"lat", "lon", "h"})
       /\ HasNumbers(res._quaternion, {"x", "y", "z", "w"})
  ELSE IF op = "deserializeGeoPose" THEN HasPosition(res) /\ HasQuaternion(res)
  ELSE HasPosition(res) /\ HasAngles(res)

JsonOps == {"fromJSON", "fromGeoPoseJSON", "fromGeoPoseYPRJSON", "deserializeGeoPose",
            "deserializeGeoPoseYPR"}

\* C1: every deserializer returns null, without throwing, on a text that is
\* not parseable JSON or whose value lacks the position object with numeric
\* lat, lon, h or the orientation object with every member a number; whatever
\* it returns that is not null is a fully populated pose.
C1_FailsClosed ==
  op \in JsonOps =>
    /\ ~IsError(res)
    /\ Refusable => res = JNull
    /\ res # JNull => Populated

\* a record with one numeric member missing was refused by a deserializer
C1_Witness ==
  /\ op \in JsonOps
  /\ arg.wellFormed
  /\ HasPosition(arg.value)
  /\ JsTypeof(arg.value) = "object"
  /\ "quaternion" \in DOMAIN arg.value.v
  /\ ~HasQuaternion(arg.value)
  /\ res = JNull

----------------------------------------------------------------------------
(* translateGeoPose                                                         *)

InitTranslate ==
  /\ op = "translate"
  /\ \E lat \in TranslateLats, lon \in TranslateLons, qn \in QuatNames, en \in EnuNames :
       arg = Call("TranslateInput", <<lat, lon, qn, en>>)
  /\ res = Undefined
  /\ crs = BuiltinCRS
  /\ heap = <<>>

TranslateGeoPose ==
  /\ op = "translate"
  /\ op' = "translateGeoPose"
  /\ res' = Call("translateGeoPose", <<arg.pose, arg.enu>>)
  /\ UNCHANGED <<arg, crs, heap>>

NextTranslate == TranslateGeoPose

SpecTranslate == InitTranslate /\ [][NextTranslate]_vars

\* C11: translateGeoPose(pose, enu) returns a pose whose quaternion equals
\* pose.quaternion, whatever the pose and the translation (the zero
\* translation included).
C11_PreservesOrientation ==
  op = "translateGeoPose" => res.quaternion = arg.pose.quaternion

\* when the translation is zero the quaternion comes back unchanged
C11_PreservesOrientationAtRest ==
  (op = "translateGeoPose" /\ arg.enu = [east |-> F0, north |-> F0, up |-> F0])
    => res.quaternion = arg.pose.quaternion

----------------------------------------------------------------------------
(* projected.ts: the registry of proj4 and the five transforms              *)

ProjQuats == {[x |-> 0, y |-> 0, z |-> 0, w |-> 1], [x |-> 0, y |-> 0, z |-> 0, w |-> 2],
              [x |-> 1, y |-> 2, z |-> 3, w |-> 4]}
ProjPositions == {[lat |-> 48, lon |-> 11, h |-> 500], [lat |-> -34, lon |-> 151, h |-> -3]}
ProjGeoPoses == [position : ProjPositions, quaternion : ProjQuats]
ProjPoses == [x : {7}, y : {9}, z : {500, -3}, quaternion : ProjQuats, epsg : EpsgNames]

InitProjected ==
  /\ op = "projected"
  /\ arg = Undefined
  /\ res = Undefined
  /\ crs = BuiltinCRS
  /\ heap = <<>>

RegisterCRS ==
  \E epsg \in RegistrableCRS :
    /\ op' = "registerCRS"
    /\ arg' = [epsg |-> epsg]
    /\ res' = Undefined
    /\ crs' = crs \cup {epsg}
    /\ UNCHANGED heap

PositionToProjected ==
  \E p \in ProjPositions, epsg \in EpsgNames :
    \E out \in proj4(crs, WGS84_PROJ, epsg, <<p.lon, p.lat>>) :
      /\ op' = "positionToProjected"
      /\ arg' = [position |-> p, epsg |-> epsg]
      /\ res' = positionToProjected(p.lat, p.lon, p.h, epsg, out)
      /\ UNCHANGED <<crs, heap>>

ProjectedToPosition ==
  \E q \in ProjPoses :
    \E out \in proj4(crs, q.epsg, WGS84_PROJ, <<q.x, q.y>>) :
      /\ op' = "projectedToPosition"
      /\ arg' = [pose |-> q]
      /\ res' = projectedToPosition(q.x, q.y, q.z, q.epsg, out)
      /\ UNCHANGED <<crs, heap>>

GeoPoseToProjected ==
  \E p \in ProjGeoPoses, epsg \in EpsgNames :
    \E out \in proj4(crs, WGS84_PROJ, epsg, <<p.position.lon, p.position.lat>>) :
      /\ op' = "geoPoseToProjected"
      /\ arg' = [geoPose |-> p, epsg |-> epsg]
      /\ res' = geoPoseToProjected(p, epsg, out)
      /\ UNCHANGED <<crs, heap>>

\* projectedToGeoPose on a pose of its own, or (chained) on the pose that
\* geoPoseToProjected has just returned, p being the pose that one was given
ProjectedToGeoPose ==
  \E chained \in BOOLEAN, own \in ProjPoses :
    LET q == IF chained THEN res ELSE own
    IN /\ chained => (op = "geoPoseToProjected" /\ ~IsError(res))
       /\ \E out \in proj4(crs, q.epsg, WGS84_PROJ, <<q.x, q.y>>) :
            /\ op' = "projectedToGeoPose"
            /\ arg' = [pose |-> q, p |-> IF chained THEN arg.geoPose ELSE Undefined]
            /\ res' = projectedToGeoPose(q, out)
            /\ UNCHANGED <<crs, heap>>

TransformProjectedPose ==
  \E q \in ProjPoses, targetEpsg \in EpsgNames :
    \E out1 \in proj4(crs, q.epsg, WGS84_PROJ, <<q.x, q.y>>) :
      \E out2 \in proj4(crs, WGS84_PROJ, targetEpsg, out1) :
        /\ op' = "transformProjectedPose"
        /\ arg' = [pose |-> q, epsg |-> targetEpsg]
        /\ res' = transformProjectedPose(q, targetEpsg, out1, out2)
        /\ UNCHANGED <<crs, heap>>

NextProjected ==
  \/ RegisterCRS
  \/ PositionToProjected
  \/ ProjectedToPosition
  \/ GeoPoseToProjected
  \/ ProjectedToGeoPose
  \/ TransformProjectedPose

SpecProjected == InitProjected /\ [][NextProjected]_vars

\* C12: geoPoseToProjected(p, epsg) returns p's quaternion component for
\* component, z = p.position.h and the requested epsg; projectedToGeoPose(q)
\* returns q's quaternion and h = q.z; the round trip through both has
\* exactly p's quaternion and height, unit quaternion or not.
C12_PassThrough ==
  /\ (op = "geoPoseToProjected" /\ ~IsError(res)) =>
       /\ res.quaternion = arg.geoPose.quaternion
       /\ res.z = arg.geoPose.position.h
       /\ res.epsg = arg.epsg
  /\ (op = "projectedToGeoPose" /\ ~IsError(res)) =>
       /\ res.quaternion = arg.pose.quaternion
       /\ res.position.h = arg.pose.z
       /\ ~IsUndefined(arg.p) =>
            /\ res.quaternion = arg.p.quaternion
            /\ res.position.h = arg.p.position.h

\* a round trip of a pose whose quaternion is not of unit length and whose
\* height is not 0 has come back
C12_Witness ==
  /\ op = "projectedToGeoPose"
  /\ ~IsError(res)
  /\ ~IsUndefined(arg.p)
  /\ arg.p.quaternion = [x |-> 1, y |-> 2, z |-> 3, w |-> 4]
  /\ arg.p.position.h = 500
  /\ res.quaternion = [x |-> 1, y |-> 2, z |-> 3, w |-> 4]

\* the systems a call hands to proj4
ProjSystems ==
  IF op \in {"positionToProjected", "geoPoseToProjected"} THEN {arg.epsg}
  ELSE IF op \in {"projectedToPosition", "projectedToGeoPose"} THEN {arg.pose.epsg}
  ELSE IF op = "transformProjectedPose" THEN {arg.pose.epsg, arg.epsg}
  ELSE {}

\* C13: positionToProjected, projectedToPosition, geoPoseToProjected,
\* projectedToGeoPose and transformProjectedPose end with the failure of
\* proj4 whenever they name a system proj4 does not know, and with a value
\* otherwise: the failure is not caught, retried or replaced by a value.
C13_FailurePropagates ==
  ProjSystems # {} =>
    IF ProjSystems \subseteq crs THEN ~IsError(res) ELSE res = Proj4Error

\* transformProjectedPose was called on a pose of an unknown system for a
\* known target and threw
C13_Witness ==
  /\ op = "transformProjectedPose"
  /\ arg.pose.epsg \notin crs
  /\ arg.epsg \in crs
  /\ res = Proj4Error

----------------------------------------------------------------------------
(* projected.ts: getUTMZoneEPSG                                             *)

InitUTM ==
  /\ op = "utm"
  /\ \E n \in UTMLons, northern \in BOOLEAN : arg = Call("UTMInput", <<n, northern>>)
  /\ res = Undefined
  /\ crs = BuiltinCRS
  /\ heap = <<>>

GetUTMZoneEPSG ==
  /\ op = "utm"
  /\ op' = "getUTMZoneEPSG"
  /\ res' = Call("getUTMZoneEPSG", <<arg.lon, arg.northern>>)
  /\ UNCHANGED <<arg, crs, heap>>

NextUTM == GetUTMZoneEPSG

SpecUTM == InitUTM /\ [][NextUTM]_vars

\* C14: getUTMZoneEPSG(lon, northern) returns "EPSG:" followed by the digits
\* of base + floor((lon + 180) / 6) + 1, where base is 32600 in the northern
\* hemisphere and 32700 in the southern one.
C14_UTMZone ==
  op = "getUTMZoneEPSG" =>
    res = "EPSG:" \o ToString((IF arg.northern THEN 32600 ELSE 32700)
                              + ((arg.tenThousandths + 1800000) \div 60000) + 1)

\* longitude 151.2093 in the southern hemisphere gave EPSG:32756
C14_Witness ==
  /\ op = "getUTMZoneEPSG"
  /\ arg.tenThousandths = 1512093
  /\ ~arg.northern
  /\ res = "EPSG:32756"

\* longitude 10.7522 in the northern hemisphere gave EPSG:32632
C14_WitnessNorth ==
  /\ op = "getUTMZoneEPSG"
  /\ arg.tenThousandths = 107522
  /\ arg.northern
  /\ res = "EPSG:32632"

----------------------------------------------------------------------------
(* Two callers of the core functions sharing their argument objects         *)

Callers == {"A", "B"}

InitCore ==
  /\ op = [c \in Callers |-> "idle"]
  /\ arg = Call("CoreArgs", <<>>)
  /\ res = [c \in Callers |-> Undefined]
  /\ crs = BuiltinCRS
  /\ heap = <<>>

\* caller c calls f on the shared objects; the call runs to completion
CallCore(c) ==
  \E f \in CoreFunctions :
    /\ op[c] = "idle"
    /\ op' = [op EXCEPT ![c] = f]
    /\ res' = [res EXCEPT ![c] = Call("CoreCall", <<f, arg>>)]
    /\ arg' = Call("CoreArgsAfter", <<f, arg>>)
    /\ UNCHANGED <<crs, heap>>

NextCore == \E c \in Callers : CallCore(c)

SpecCore == InitCore /\ [][NextCore]_vars

----------------------------------------------------------------------------
(* GeoPoseBasic: an instance is constructed, then one of its methods called *)

InitBasic ==
  /\ op = "basic"
  /\ \E pq \in BasicPoseQuats, aq \in BasicArgQuats : arg = Call("BasicInput", <<pq, aq>>)
  /\ res = Undefined
  /\ crs = BuiltinCRS
  /\ heap = <<>>

\* res is the instance
Construct(m) ==
  /\ op = "basic"
  /\ op' = m
  /\ res' = Call("BasicCall", <<m, Undefined, arg>>)
  /\ UNCHANGED <<arg, crs, heap>>

Mutate(m) ==
  /\ op \in Constructors
  /\ op' = m
  /\ res' = Call("BasicCall", <<m, res, arg>>)
  /\ UNCHANGED <<arg, crs, heap>>

NextBasic ==
  \/ \E m \in Constructors : Construct(m)
  \/ \E m \in Mutators : Mutate(m)

SpecBasic == InitBasic /\ [][NextBasic]_vars

\* x^2 + y^2 + z^2 + w^2 of a quaternion, and whether it is 1 within 1e-9
SquaredMagnitude(q) ==
  FAdd(FAdd(FAdd(FMul(q.x, q.x), FMul(q.y, q.y)), FMul(q.z, q.z)), FMul(q.w, q.w))
IsUnit(q) == FLe(FAbs(FSub(SquaredMagnitude(q), F1)), Dec(1, <<1>>, 9))

\* C16: right after qx, qy, qz or qw is assigned, or setQuaternionOrientation,
\* setOrientation, rotateByQuaternion or normalizeOrientation is called, the
\* stored quaternion has unit magnitude (the identity included).
C16_SettersNormalize ==
  op \in ComponentSetters \cup {"setQuaternionOrientation", "setOrientation",
                                "rotateByQuaternion", "normalizeOrientation"}
    => IsUnit(res._quaternion)

\* C18: after any constructor and any mutator the stored quaternion satisfies
\* x^2 + y^2 + z^2 + w^2 = 1 within tolerance.
C18_UnitInvariant ==
  op \in Constructors \cup Mutators => IsUnit(res._quaternion)

----------------------------------------------------------------------------
(* GeoPoseBasic: one instance, and a caller holding the objects it passed   *)
(* in and the objects it was handed                                         *)

\* the most objects ever allocated
MaxObjects == 13

\* res is the reference of the instance, 0 before it is constructed; arg.pose
\* is the pose object of the caller, arg.held the position and quaternion
\* objects it holds, arg.clones the clones it holds
InitRefs ==
  /\ op = "refs"
  /\ \E h \in {1, 2} :
       heap = <<[lat |-> 48, lon |-> 11, h |-> h], [x |-> 0, y |-> 0, z |-> 0, w |-> h],
                [position |-> 1, quaternion |-> 2]>>
  /\ arg = [pose |-> 3, held |-> {1, 2}, clones |-> {}]
  /\ res = 0
  /\ crs = BuiltinCRS

NewRef ==
  /\ res = 0
  /\ op' = "new"
  /\ heap' = constructorRef(heap, arg.pose)
  /\ res' = Newest(heap')
  /\ UNCHANGED <<arg, crs>>

SetGeoPoseRef ==
  /\ res # 0
  /\ Len(heap) + 2 <= MaxObjects
  /\ op' = "setGeoPose"
  /\ heap' = setGeoPoseRef(heap, res, arg.pose)
  /\ UNCHANGED <<arg, res, crs>>

SetPositionRef ==
  \E r \in arg.held :
    /\ res # 0
    /\ Len(heap) + 1 <= MaxObjects
    /\ "lat" \in DOMAIN heap[r]
    /\ op' = "setPosition"
    /\ heap' = setPositionRef(heap, res, r)
    /\ UNCHANGED <<arg, res, crs>>

GetPosition ==
  /\ res # 0
  /\ Len(heap) + 1 <= MaxObjects
  /\ op' = "position"
  /\ heap' = positionRef(heap, res)
  /\ arg' = [arg EXCEPT !.held = @ \cup {Newest(heap')}]
  /\ UNCHANGED <<res, crs>>

GetQuaternion ==
  /\ res # 0
  /\ Len(heap) + 1 <= MaxObjects
  /\ op' = "quaternion"
  /\ heap' = quaternionRef(heap, res)
  /\ arg' = [arg EXCEPT !.held = @ \cup {Newest(heap')}]
  /\ UNCHANGED <<res, crs>>

ToGeoPose ==
  /\ res # 0
  /\ Len(heap) + 3 <= MaxObjects
  /\ op' = "toGeoPose"
  /\ heap' = toGeoPoseRef(heap, res)
  /\ arg' = [arg EXCEPT !.held = @ \cup {heap'[Newest(heap')].position,
                                        heap'[Newest(heap')].quaternion}]
  /\ UNCHANGED <<res, crs>>

Clone ==
  /\ res # 0
  /\ Len(heap) + 6 <= MaxObjects
  /\ op' = "clone"
  /\ heap' = cloneRef(heap, res)
  /\ arg' = [arg EXCEPT !.clones = @ \cup {Newest(heap')}]
  /\ UNCHANGED <<res, crs>>

\* lat of a position object, x of a quaternion object
FirstMember(o) == IF "lat" \in DOMAIN o THEN "lat" ELSE "x"

\* the caller assigns to the first member of every object it passed in or
\* was handed
CallerAssigns ==
  /\ \E r \in arg.held : heap[r][FirstMember(heap[r])] # 9
  /\ op' = "assign"
  /\ heap' = [r \in DOMAIN heap |->
                IF r \in arg.held THEN [heap[r] EXCEPT ![FirstMember(heap[r])] = 9]
                ELSE heap[r]]
  /\ UNCHANGED <<arg, res, crs>>

\* the caller sets lat of a clone
CloneSetLat ==
  \E c \in arg.clones :
    /\ heap[heap[c]._position].lat # 9
    /\ op' = "assign"
    /\ heap' = setLatRef(heap, c, 9)
    /\ UNCHANGED <<arg, res, crs>>

NextRefs ==
  \/ NewRef
  \/ SetGeoPoseRef
  \/ SetPositionRef
  \/ GetPosition
  \/ GetQuaternion
  \/ ToGeoPose
  \/ Clone
  \/ CallerAssigns
  \/ CloneSetLat

SpecRefs == InitRefs /\ [][NextRefs]_vars

\* the pose the instance stores
Stored == [position |-> heap[heap[res]._position], quaternion |-> heap[heap[res]._quaternion]]

\* C17: an assignment by the caller to an object it passed to the constructor,
\* setGeoPose or setPosition, or was handed by the position or quaternion
\* getter or toGeoPose, or to a clone, leaves the pose stored in the instance
\* as it was.
C17_NeverShared ==
  [][(res # 0 /\ op' = "assign") => Stored' = Stored]_vars

\* the caller has overwritten the position it passed in, the position it was
\* handed by the getter and the latitude of a clone, and the instance still
\* stores the latitude it was constructed with
C17_Witness ==
  /\ res # 0
  /\ op = "assign"
  /\ heap[1].lat = 9
  /\ \E r \in arg.held \ {1} : "lat" \in DOMAIN heap[r] /\ heap[r].lat = 9
  /\ \E c \in arg.clones : heap[heap[c]._position].lat = 9
  /\ Stored.position.lat = 48

----------------------------------------------------------------------------
(* ecefToGeoPose: the refinement loop, pass by pass                         *)

InitEcefLoop ==
  /\ op = "ecefToGeoPose"
  /\ \E x \in EcefXs, y \in EcefYs, z \in EcefZs : arg = Call("EcefInput", <<x, y, z>>)
  /\ res = Undefined
  /\ crs = BuiltinCRS
  /\ heap = <<>>

\* lam, p, the initial guess and let i = 0
EcefStart ==
  /\ op = "ecefToGeoPose"
  /\ op' = "loop"
  /\ res' = Call("ecefStart", <<arg>>)
  /\ UNCHANGED <<arg, crs, heap>>

\* i < 5: the body, then i++
EcefPass ==
  /\ op = "loop"
  /\ res.i < 5
  /\ res' = [res EXCEPT !.i = @ + 1, !.st = Call("ecefIteration", <<res.p, arg.z, res.st>>)]
  /\ UNCHANGED <<op, arg, crs, heap>>

\* i < 5 is false: the loop is left
EcefLeave ==
  /\ op = "loop"
  /\ ~(res.i < 5)
  /\ op' = "left"
  /\ UNCHANGED <<arg, res, crs, heap>>

\* the rest of the function, with the identity as orientation
EcefReturn ==
  /\ op = "left"
  /\ op' = "returned"
  /\ res' = [i |-> res.i, p |-> res.p, st |-> res.st,
             pose |-> Call("ecefResult", <<arg, identityQuaternion, res.st>>)]
  /\ UNCHANGED <<arg, crs, heap>>

NextEcefLoop == EcefStart \/ EcefPass \/ EcefLeave \/ EcefReturn

SpecEcefLoop == InitEcefLoop /\ [][NextEcefLoop]_vars

\* a call runs on until it returns. NextEcefLoop is enabled exactly while
\* op # "returned", so this is WF_vars(NextEcefLoop) with its ENABLED written out
SpecEcefLoopFair ==
  SpecEcefLoop /\ ([]<>(op = "returned") \/ []<><<NextEcefLoop>>_vars)

\* what a pass from the state s must arrive at: N from the latitude of s, h
\* from that N, the latitude from that N and that h
PassInOrder(s, t) ==
  LET sinPhi == FSin(s.phi)
  IN /\ t.N = FDiv(WGS84a, FSqrt(FSub(F1, FMul(FMul(WGS84e2, sinPhi), sinPhi))))
     /\ t.h = FSub(FDiv(res.p, FCos(s.phi)), t.N)
     /\ t.phi = FAtan2(arg.z, FMul(res.p, FSub(F1, FMul(WGS84e2, FDiv(t.N, FAdd(t.N, t.h))))))

\* C4: for every finite ECEF input no pass of the refinement divides by zero
\* (neither cos(lat) nor N + h is zero where it divides) and the returned lat,
\* lon and h are finite.
C4_Total ==
  /\ op \in {"loop", "left"} /\ res.i > 0 => ~IsZero(res.st.cosPhi) /\ ~IsZero(res.st.Nh)
  /\ op = "returned" =>
       /\ IsFinite(res.pose.position.lat)
       /\ IsFinite(res.pose.position.lon)
       /\ IsFinite(res.pose.position.h)

\* the first half of C4 alone, and the centre of the earth returned as NaN
C4_NoDivisionByZero ==
  op \in {"loop", "left"} /\ res.i > 0 => ~IsZero(res.st.cosPhi) /\ ~IsZero(res.st.Nh)

C4_CentreIsNaN ==
  /\ op = "returned"
  /\ IsZero(arg.x) /\ IsZero(arg.y) /\ IsZero(arg.z)
  /\ IsNaN(res.pose.position.lat)
  /\ IsNaN(res.pose.position.h)

\* C19: for every input the refinement of ecefToGeoPose leaves its loop, it
\* has made exactly 5 passes when it does, and each pass computes N, then h,
\* then the latitude.
C19_FivePasses ==
  /\ <>(op = "left")
  /\ [](op = "left" => res.i = 5)
  /\ [][(op = "loop" /\ op' = "loop") => PassInOrder(res.st, res'.st)]_vars

\* the loop was left after passes that produced NaN: the point is on the axis
C19_Witness ==
  /\ op = "left"
  /\ res.i = 5
  /\ IsNaN(res.st.phi)

\* the loop was left for a point off the axis
C19_WitnessFinite ==
  /\ op = "left"
  /\ res.i = 5
  /\ IsFinite(res.st.phi)
  /\ ~IsZero(res.st.h)

----------------------------------------------------------------------------
(* matrixToQuaternion: the branch it takes                                  *)

InitMatrix ==
  /\ op = "matrix"
  /\ \/ \E lat \in MatrixLats, lon \in MatrixLons :
          arg = Call("RotationInput", <<lat, lon>>)
     \/ \E a \in MatrixHalves, b \in MatrixHalves, c \in MatrixHalves :
          arg = Call("DiagonalInput", <<a, b, c>>)
  /\ res = Undefined
  /\ crs = BuiltinCRS
  /\ heap = <<>>

MatrixToQuaternion ==
  /\ op = "matrix"
  /\ op' = "matrixToQuaternion"
  /\ res' = [run |-> Call("matrixToQuaternionRun", <<arg.m>>),
             q |-> Call("matrixToQuaternion", <<arg.m>>)]
  /\ UNCHANGED <<arg, crs, heap>>

NextMatrix == MatrixToQuaternion

SpecMatrix == InitMatrix /\ [][NextMatrix]_vars

\* the diagonal element the branch is keyed to, and the two others
Pivot(m, branch) ==
  CASE branch = "m00" -> <<m[1], m[5], m[9]>>
    [] branch = "m11" -> <<m[5], m[1], m[9]>>
    [] branch = "m22" -> <<m[9], m[1], m[5]>>

\* the quaternion of a branch from its s
BranchQuaternion(m, branch, s) ==
  CASE branch = "trace" -> Quat(FMul(FSub(m[8], m[6]), s), FMul(FSub(m[3], m[7]), s),
                                FMul(FSub(m[4], m[2]), s), FDiv(FQuarter, s))
    [] branch = "m00" -> Quat(FMul(FQuarter, s), FDiv(FAdd(m[2], m[4]), s),
                              FDiv(FAdd(m[3], m[7]), s), FDiv(FSub(m[8], m[6]), s))
    [] branch = "m11" -> Quat(FDiv(FAdd(m[2], m[4]), s), FMul(FQuarter, s),
                              FDiv(FAdd(m[6], m[8]), s), FDiv(FSub(m[3], m[7]), s))
    [] branch = "m22" -> Quat(FDiv(FAdd(m[3], m[7]), s), FDiv(FAdd(m[6], m[8]), s),
                              FMul(FQuarter, s), FDiv(FSub(m[4], m[2]), s))

\* C20: matrixToQuaternion uses the trace formula exactly when trace > 0;
\* otherwise it uses one diagonal branch, whose pivot element is greater than
\* or equal to the other two diagonal elements; and for the matrix of an
\* ENU to ECEF rotation the s of the branch it uses is not zero.
C20_BranchSelection ==
  op = "matrixToQuaternion" =>
    LET m == arg.m
        run == res.run
    IN /\ res.q = BranchQuaternion(m, run.branch, run.s)
       /\ run.branch = "trace" <=> FGt(FAdd(FAdd(m[1], m[5]), m[9]), F0)
       /\ run.branch # "trace" =>
            /\ run.branch \in {"m00", "m11", "m22"}
            /\ FGe(Pivot(m, run.branch)[1], Pivot(m, run.branch)[2])
            /\ FGe(Pivot(m, run.branch)[1], Pivot(m, run.branch)[3])
       /\ arg.kind = "rotation" => IsFinite(run.s) /\ ~IsZero(run.s)

\* the rotation at latitude 0, longitude 0: its trace is zero and its three
\* diagonal elements are equal
C20_Witness ==
  /\ op = "matrixToQuaternion"
  /\ arg.kind = "rotation"
  /\ arg.lat = 0
  /\ arg.lon = 0
  /\ res.run.branch = "m22"
  /\ IsZero(res.run.trace)
  /\ FEq(arg.m[9], arg.m[1])
  /\ FEq(arg.m[9], arg.m[5])

\* rotations that take the m00 branch and the m11 branch
C20_WitnessM00 ==
  /\ op = "matrixToQuaternion"
  /\ arg.kind = "rotation"
  /\ res.run.branch = "m00"

C20_WitnessM11 ==
  /\ op = "matrixToQuaternion"
  /\ arg.kind = "rotation"
  /\ res.run.branch = "m11"

\* a diagonal matrix whose two largest elements are equal
C20_WitnessTie ==
  /\ op = "matrixToQuaternion"
  /\ arg.kind = "diagonal"
  /\ arg.halves = <<-1, -2, -1>>
  /\ res.run.branch = "m22"

----------------------------------------------------------------------------
(* quaternionToYPR                                                          *)

InitYPR ==
  /\ op = "quaternion"
  /\ \E x \in ComponentNames \ {"-1"}, y \in ComponentNames, z \in ComponentNames \ {"-1"},
        w \in ComponentNames :
       arg = Call("YPRInput", <<x, y, z, w>>)
  /\ res = Undefined
  /\ crs = BuiltinCRS
  /\ heap = <<>>

QuaternionToYPR ==
  /\ op = "quaternion"
  /\ op' = "quaternionToYPR"
  /\ res' = Call("quaternionToYPR", <<arg>>)
  /\ UNCHANGED <<arg, crs, heap>>

NextYPR == QuaternionToYPR

SpecYPR == InitYPR /\ [][NextYPR]_vars

FiniteQuaternion(q) == IsFinite(q.x) /\ IsFinite(q.y) /\ IsFinite(q.z) /\ IsFinite(q.w)

\* where |sinp| >= 1 the pitch is 90 degrees with the sign of sinp
C2_Clamped ==
  op = "quaternionToYPR" =>
    LET sinp == sinpOf(arg.quaternion)
    IN AbsGe(sinp, F1) =>
         res.angles.pitch = (IF sinp.s = 1 THEN FromInt(90) ELSE FromInt(-90))

\* C2: for every quaternion, where |sinp| >= 1 quaternionToYPR returns a
\* pitch of exactly +90 or -90 degrees with the sign of sinp, and for a
\* quaternion of finite components the pitch is never NaN.
C2_GimbalClamp ==
  /\ C2_Clamped
  /\ op = "quaternionToYPR" /\ FiniteQuaternion(arg.quaternion) => ~IsNaN(res.angles.pitch)

\* the clamp was taken, with sinp just above 1
C2_ClampTaken ==
  /\ op = "quaternionToYPR"
  /\ arg.quaternion = Quat(F0, FSqrtHalf, F0, FSqrtHalf)
  /\ FGt(sinpOf(arg.quaternion), F1)
  /\ res.angles.pitch = FromInt(90)

----------------------------------------------------------------------------
(* normalizeQuaternion and normalizeGeoPose                                 *)

InitNormalize ==
  /\ op = "quaternion"
  /\ \E x \in {"0", "tiny", "1/2", "huge"}, y \in {"0", "tiny", "1/2", "huge"},
        z \in {"0", "3"}, w \in NormalNames \ {"3"} :
       arg = Call("NormalInput", <<x, y, z, w>>)
  /\ res = Undefined
  /\ crs = BuiltinCRS
  /\ heap = <<>>

NormalizeQuaternion ==
  /\ op = "quaternion"
  /\ op' = "normalizeQuaternion"
  /\ res' = Call("normalizeQuaternion", <<arg.quaternion>>)
  /\ UNCHANGED <<arg, crs, heap>>

NormalizeGeoPose ==
  /\ op = "quaternion"
  /\ op' = "normalizeGeoPose"
  /\ res' = Call("normalizeGeoPose", <<arg>>).quaternion
  /\ UNCHANGED <<arg, crs, heap>>

NextNormalize == NormalizeQuaternion \/ NormalizeGeoPose

SpecNormalize == InitNormalize /\ [][NextNormalize]_vars

Normalized == op \in {"normalizeQuaternion", "normalizeGeoPose"}

\* C3: where the magnitude of q is zero a normalization returns (0, 0, 0, 1)
\* and divides nothing; otherwise it returns each component divided by the
\* magnitude; and the call leaves its argument as it was.
C3_NoDivisionByZero ==
  /\ [](Normalized =>
          LET q == arg.quaternion
              mag == quaternionMagnitude(q)
          IN IF IsZero(mag) THEN res = Quat(F0, F0, F0, F1)
             ELSE res = Quat(FDiv(q.x, mag), FDiv(q.y, mag), FDiv(q.z, mag), FDiv(q.w, mag)))
  /\ [][Normalized' => arg' = arg]_vars

\* the zero quaternion was normalized to the identity
C3_Witness ==
  /\ Normalized
  /\ arg.quaternion = Quat(F0, F0, F0, F0)
  /\ res = Quat(F0, F0, F0, F1)

\* a quaternion that is not zero, whose computed magnitude is zero
C3_WitnessUnderflow ==
  /\ Normalized
  /\ arg.quaternion = Quat(FTiny, F0, F0, FTiny)
  /\ res = Quat(F0, F0, F0, F1)

----------------------------------------------------------------------------
(* The conversions that return a quaternion                                 *)

InitUnit ==
  /\ op = "call"
  /\ \E f \in UnitFunctions, e \in UnitEcefs, qn \in UnitQuats :
       arg = [f |-> f, ecef |-> e, a |-> Call("UnitArgs", <<e, qn>>)]
  /\ res = Undefined
  /\ crs = BuiltinCRS
  /\ heap = <<>>

UnitReturn ==
  /\ op = "call"
  /\ op' = "returned"
  /\ res' = Call("UnitCall", <<arg.f, arg.a>>)
  /\ UNCHANGED <<arg, crs, heap>>

NextUnit == UnitReturn

SpecUnit == InitUnit /\ [][NextUnit]_vars

\* the quaternion of a returned object
Returned == IF "quaternion" \in DOMAIN res THEN res.quaternion ELSE res.orientation

\* |magnitude - 1| <= 1e-6
UnitWithin6(q) == FLe(FAbs(FSub(quaternionMagnitude(q), F1)), Dec(1, <<1>>, 6))

\* C5: every quaternion a conversion returns has unit magnitude within 1e-6.
C5_UnitQuaternions == op = "returned" => UnitWithin6(Returned)

\* the same, but for ecefToGeoPose at the centre of the earth and on its axis
C5_UnitOffAxis ==
  op = "returned" /\ ~(arg.f = "ecefToGeoPose" /\ arg.ecef # "surface") => UnitWithin6(Returned)

\* ecefToGeoPose returned a quaternion of NaN for the centre of the earth
C5_CentreIsNaN ==
  /\ op = "returned"
  /\ arg.f = "ecefToGeoPose"
  /\ arg.ecef = "centre"
  /\ IsNaN(Returned.w)

----------------------------------------------------------------------------
(* geoPoseToECEF and back                                                   *)

InitRoundTrip ==
  /\ op = "pose"
  /\ \E lat \in RoundTripLats, lon \in RoundTripLons, h \in RoundTripHeights :
       arg = Call("PoseAt", <<lat, lon, h, "identity">>)
  /\ res = Undefined
  /\ crs = BuiltinCRS
  /\ heap = <<>>

GeoPoseToECEF ==
  /\ op = "pose"
  /\ op' = "geoPoseToECEF"
  /\ res' = Call("geoPoseToECEF", <<arg>>)
  /\ UNCHANGED <<arg, crs, heap>>

\* ecefToGeoPose(ecef.position, ecef.orientation)
EcefToGeoPose ==
  /\ op = "geoPoseToECEF"
  /\ op' = "ecefToGeoPose"
  /\ res' = Call("ecefToGeoPose", <<res.position, res.orientation>>)
  /\ UNCHANGED <<arg, crs, heap>>

NextRoundTrip == GeoPoseToECEF \/ EcefToGeoPose

SpecRoundTrip == InitRoundTrip /\ [][NextRoundTrip]_vars

\* |x - y| <= eps
Within(x, y, eps) == FLe(FAbs(FSub(x, y)), eps)

\* C6: for -90 <= lat <= 90, -180 <= lon <= 180 and a terrestrial height,
\* ecefToGeoPose of the result of geoPoseToECEF returns the latitude and the
\* longitude within 1e-6 degree and the height within 1e-3 m.
C6_RoundTrip ==
  op = "ecefToGeoPose" =>
    /\ Within(res.position.lat, arg.position.lat, Dec(1, <<1>>, 6))
    /\ Within(res.position.lon, arg.position.lon, Dec(1, <<1>>, 6))
    /\ Within(res.position.h, arg.position.h, FMilli)

\* the north pole at the antimeridian came back
C6_Witness ==
  /\ op = "ecefToGeoPose"
  /\ arg.position.lat = FromInt(90)
  /\ arg.position.lon = F180
  /\ Within(res.position.lat, arg.position.lat, Dec(1, <<1>>, 6))
  /\ Within(res.position.lon, arg.position.lon, Dec(1, <<1>>, 6))

\* Sydney came back, and not bit for bit
C6_WitnessSydney ==
  /\ op = "ecefToGeoPose"
  /\ arg.position.lat = Dec(-1, <<33, 8688>>, 4)
  /\ arg.position.lon = Dec(1, <<151, 2093>>, 4)
  /\ Within(res.position.h, arg.position.h, FMilli)
  /\ res.position # arg.position

----------------------------------------------------------------------------
(* geoPoseToLocalENU and back, directly and by the pose algebra             *)

InitLocal ==
  /\ op = "poses"
  /\ \E o \in LocalOrigins, dlat \in LocalOffsets, dlon \in LocalOffsets :
       arg = Call("LocalInput", <<o, dlat, dlon>>)
  /\ res = Undefined
  /\ crs = BuiltinCRS
  /\ heap = <<>>

\* e = geoPoseToLocalENU(target, origin)
GeoPoseToLocalENU ==
  /\ op = "poses"
  /\ op' = "geoPoseToLocalENU"
  /\ res' = Call("geoPoseToLocalENU", <<arg.target, arg.origin.position>>)
  /\ UNCHANGED <<arg, crs, heap>>

\* localENUToGeoPose(e.position, e.orientation, origin)
LocalENUToGeoPose ==
  /\ op = "geoPoseToLocalENU"
  /\ op' = "localENUToGeoPose"
  /\ res' = Call("localENUToGeoPose", <<res.position, res.orientation, arg.origin.position>>)
  /\ UNCHANGED <<arg, crs, heap>>

\* rel = getRelativePose(base, target)
GetRelativePose ==
  /\ op = "poses"
  /\ op' = "getRelativePose"
  /\ res' = Call("getRelativePose", <<arg.origin, arg.target>>)
  /\ UNCHANGED <<arg, crs, heap>>

\* applyRelativePose(base, rel)
ApplyRelativePose ==
  /\ op = "getRelativePose"
  /\ op' = "applyRelativePose"
  /\ res' = Call("applyRelativePose", <<arg.origin, res>>)
  /\ UNCHANGED <<arg, crs, heap>>

NextLocal == GeoPoseToLocalENU \/ LocalENUToGeoPose \/ GetRelativePose \/ ApplyRelativePose

SpecLocal == InitLocal /\ [][NextLocal]_vars

\* the result is a pose at the position of the target: lat and lon within
\* 1e-7 degree, h within 1e-3 m
RecoversTarget ==
  /\ ~IsError(res)
  /\ Within(res.position.lat, arg.target.position.lat, Dec(1, <<1>>, 7))
  /\ Within(res.position.lon, arg.target.position.lon, Dec(1, <<1>>, 7))
  /\ Within(res.position.h, arg.target.position.h, FMilli)

\* the round trip through geoPoseToLocalENU and localENUToGeoPose alone
C7_DirectRoundTrip == op = "localENUToGeoPose" => RecoversTarget

\* C7: for an origin and a nearby target, localENUToGeoPose of the result of
\* geoPoseToLocalENU returns the position of the target; and so does
\* applyRelativePose(base, getRelativePose(base, target)).
C7_LocalRoundTrip == op \in {"localENUToGeoPose", "applyRelativePose"} => RecoversTarget

\* applyRelativePose threw on what getRelativePose returned
C7_ApplyThrows ==
  /\ op = "applyRelativePose"
  /\ res = TypeError

----------------------------------------------------------------------------
(* yprToQuaternion and back                                                 *)

InitAngles ==
  /\ op = "angles"
  /\ \E yaw \in AngleYaws, pitch \in AnglePitches, roll \in AngleRolls :
       arg = Call("AngleInput", <<yaw, pitch, roll>>)
  /\ res = Undefined
  /\ crs = BuiltinCRS
  /\ heap = <<>>

YprToQuaternion ==
  /\ op = "angles"
  /\ op' = "yprToQuaternion"
  /\ res' = Call("yprToQuaternion", <<[position |-> arg.position, angles |-> arg.angles]>>)
  /\ UNCHANGED <<arg, crs, heap>>

\* quaternionToYPR(yprToQuaternion(p))
QuaternionToYPRBack ==
  /\ op = "yprToQuaternion"
  /\ op' = "quaternionToYPR"
  /\ res' = Call("quaternionToYPR", <<res>>)
  /\ UNCHANGED <<arg, crs, heap>>

NextAngles == YprToQuaternion \/ QuaternionToYPRBack

SpecAngles == InitAngles /\ [][NextAngles]_vars

\* the quaternion of the half angles
HalfAngles(angles) ==
  LET cy == FCos(FMul(degToRad(angles.yaw), FHalf))
      sy == FSin(FMul(degToRad(angles.yaw), FHalf))
      cp == FCos(FMul(degToRad(angles.pitch), FHalf))
      sp == FSin(FMul(degToRad(angles.pitch), FHalf))
      cr == FCos(FMul(degToRad(angles.roll), FHalf))
      sr == FSin(FMul(degToRad(angles.roll), FHalf))
  IN [w |-> FAdd(FMul(FMul(cr, cp), cy), FMul(FMul(sr, sp), sy)),
      x |-> FSub(FMul(FMul(sr, cp), cy), FMul(FMul(cr, sp), sy)),
      y |-> FAdd(FMul(FMul(cr, sp), cy), FMul(FMul(sr, cp), sy)),
      z |-> FSub(FMul(FMul(cr, cp), sy), FMul(FMul(sr, sp), cy))]

\* yaw, pitch and roll came back to 5 decimal degrees
AnglesBack ==
  /\ Within(res.angles.yaw, arg.angles.yaw, Dec(1, <<1>>, 5))
  /\ Within(res.angles.pitch, arg.angles.pitch, Dec(1, <<1>>, 5))
  /\ Within(res.angles.roll, arg.angles.roll, Dec(1, <<1>>, 5))

\* yaw and roll inside the range of atan2, pitch inside the range of asin
Principal ==
  /\ arg.degrees.yaw > -180 /\ arg.degrees.yaw < 180
  /\ arg.degrees.roll > -180 /\ arg.degrees.roll < 180
  /\ arg.degrees.pitch > -90 /\ arg.degrees.pitch < 90

C8_Roll180 ==
  /\ op = "quaternionToYPR"
  /\ arg.degrees = [yaw |-> 45, pitch |-> -89, roll |-> -180]
  /\ res.angles.roll = F180

\* a yaw of 270 degrees came back as -90
C8_Yaw270 ==
  /\ op = "quaternionToYPR"
  /\ arg.degrees = [yaw |-> 270, pitch |-> 45, roll |-> 45]
  /\ Within(res.angles.yaw, FromInt(-90), Dec(1, <<1>>, 5))

----------------------------------------------------------------------------
(* interpolatePose at t = 0 and t = 1                                       *)

InitInterpolate ==
  /\ op = "poses"
  /\ \E place \in InterpPlaces, qa \in {"identity", "half"}, qb \in InterpQuats,
        sign \in InterpSigns, t \in {0, 1} :
       arg = Call("InterpInput", <<place, qa, qb, sign, t>>)
  /\ res = Undefined
  /\ crs = BuiltinCRS
  /\ heap = <<>>

InterpolatePose ==
  /\ op = "poses"
  /\ op' = "interpolatePose"
  /\ res' = Call("interpolatePose", <<arg.a, arg.b, arg.t>>)
  /\ UNCHANGED <<arg, crs, heap>>

NextInterpolate == InterpolatePose

SpecInterpolate == InitInterpolate /\ [][NextInterpolate]_vars

\* the pose is that of e: lat and lon within 1e-7 degree, h within 1e-3 m
SamePosition(pose, e) ==
  /\ Within(pose.position.lat, e.position.lat, Dec(1, <<1>>, 7))
  /\ Within(pose.position.lon, e.position.lon, Dec(1, <<1>>, 7))
  /\ Within(pose.position.h, e.position.h, FMilli)

\* the quaternions are equal, each component within 1e-6
SameQuaternion(q, e) ==
  /\ Within(q.x, e.x, Dec(1, <<1>>, 6))
  /\ Within(q.y, e.y, Dec(1, <<1>>, 6))
  /\ Within(q.z, e.z, Dec(1, <<1>>, 6))
  /\ Within(q.w, e.w, Dec(1, <<1>>, 6))

\* the pose interpolatePose is to return at t = 0 or t = 1
AtEnd == IF IsZero(arg.t) THEN arg.a ELSE arg.b

\* the branch slerp takes on the two poses, and whether it turns the sign
InterpBranch ==
  slerpBranch(geoPoseToECEF(arg.a).orientation, geoPoseToECEF(arg.b).orientation)
InterpFlipped ==
  slerpFlipped(geoPoseToECEF(arg.a).orientation, geoPoseToECEF(arg.b).orientation)

\* C9: interpolatePose(a, b, 0) returns a pose equal to a and
\* interpolatePose(a, b, 1) a pose equal to b, in position and in orientation
\* quaternion, whichever branch slerp takes.
C9_Boundary ==
  op = "interpolatePose" =>
    /\ SamePosition(res, AtEnd)
    /\ SameQuaternion(res.quaternion, AtEnd.quaternion)

\* the position alone
C9_BoundaryPosition == op = "interpolatePose" => SamePosition(res, AtEnd)

\* the general branch without a turn of sign
C9_BoundaryGeneral ==
  op = "interpolatePose" /\ InterpBranch = "general" /\ ~InterpFlipped =>
    SameQuaternion(res.quaternion, AtEnd.quaternion)

\* at t = 0 the general branch with a turn of sign returned -a.quaternion
C9_FlippedNegates ==
  /\ op = "interpolatePose"
  /\ IsZero(arg.t)
  /\ InterpBranch = "general"
  /\ InterpFlipped
  /\ SameQuaternion(res.quaternion, conjugateQuaternion([arg.a.quaternion EXCEPT !.w = FNeg(@)]))

\* at t = 1 the coincident branch returned the quaternion of a where that of
\* b is its negative
C9_CoincidentKeepsA ==
  /\ op = "interpolatePose"
  /\ ~IsZero(arg.t)
  /\ InterpBranch = "coincident"
  /\ ~SameQuaternion(res.quaternion, arg.b.quaternion)

C9_NearParallelTaken ==
  /\ op = "interpolatePose"
  /\ InterpBranch = "near-parallel"

----------------------------------------------------------------------------
(* getRelativePose and applyRelativePose                                    *)

InitDelegate ==
  /\ op = "poses"
  /\ \E o \in LocalOrigins, dlat \in LocalOffsets, dlon \in {1, -100}, rn \in RelativeNames :
       arg = Call("DelegateInput", <<o, dlat, dlon, rn>>)
  /\ res = Undefined
  /\ crs = BuiltinCRS
  /\ heap = <<>>

GetRelativePoseOf ==
  /\ op = "poses"
  /\ op' = "getRelativePose"
  /\ res' = Call("getRelativePose", <<arg.from, arg.to>>)
  /\ UNCHANGED <<arg, crs, heap>>

ApplyRelativePoseTo ==
  /\ op = "poses"
  /\ op' = "applyRelativePose"
  /\ res' = Call("applyRelativePose", <<arg.from, arg.relative>>)
  /\ UNCHANGED <<arg, crs, heap>>

NextDelegate == GetRelativePoseOf \/ ApplyRelativePoseTo

SpecDelegate == InitDelegate /\ [][NextDelegate]_vars

C10_WitnessApply ==
  /\ op = "applyRelativePose"
  /\ ~IsError(res)
  /\ res.position # arg.from.position

----------------------------------------------------------------------------
(* getEcefToEnuRotation against the conjugate of getEnuToEcefRotation       *)

InitConjugate ==
  /\ op = "place"
  /\ \E lat \in MatrixLats, lon \in MatrixLons, qn \in ConjugateQuats :
       arg = Call("ConjugateInput", <<lat, lon, qn>>)
  /\ res = Undefined
  /\ crs = BuiltinCRS
  /\ heap = <<>>

\* conversions.ts: the quaternion of the transposed matrix
GetEcefToEnuRotation ==
  /\ op = "place"
  /\ op' = "getEcefToEnuRotation"
  /\ res' = Call("ConjugateCall", <<"getEcefToEnuRotation", arg, res>>)
  /\ UNCHANGED <<arg, crs, heap>>

\* local.ts: the conjugate of the quaternion of the matrix itself
ConjugateEnuToEcef ==
  /\ op = "getEcefToEnuRotation"
  /\ op' = "conjugateQuaternion"
  /\ res' = Call("ConjugateCall", <<"conjugateQuaternion", arg, res>>)
  /\ UNCHANGED <<arg, crs, heap>>

\* ecefToGeoPose(geoPoseToECEF(pose))
ConjugateRoundTrip ==
  /\ op = "conjugateQuaternion"
  /\ op' = "roundTrip"
  /\ res' = Call("ConjugateCall", <<"roundTrip", arg, res>>)
  /\ UNCHANGED <<arg, crs, heap>>

NextConjugate == GetEcefToEnuRotation \/ ConjugateEnuToEcef \/ ConjugateRoundTrip

SpecConjugate == InitConjugate /\ [][NextConjugate]_vars

\* q with every component negated
Negated(q) == [x |-> FNeg(q.x), y |-> FNeg(q.y), z |-> FNeg(q.z), w |-> FNeg(q.w)]

\* C21: at every latitude and longitude the quaternion of the transposed
\* matrix equals, component by component, the conjugate of the ENU->ECEF
\* quaternion, in every matrixToQuaternion branch, and so
\* ecefToGeoPose(geoPoseToECEF(p)) returns p's quaternion with the same sign.
C21_Conjugate ==
  /\ op \in {"conjugateQuaternion", "roundTrip"} =>
       SameQuaternion(res.transposed, res.conjugated)
  /\ op = "roundTrip" => SameQuaternion(res.back.quaternion, arg.pose.quaternion)

\* what the code does: equal in the trace branch, the negative of the
\* conjugate in the three others, and the pose's quaternion comes back negated
C21_ConjugateUpToSign ==
  /\ op \in {"conjugateQuaternion", "roundTrip"} =>
       IF res.branch = "trace" THEN SameQuaternion(res.transposed, res.conjugated)
       ELSE SameQuaternion(res.transposed, Negated(res.conjugated))
  /\ op = "roundTrip" =>
       \/ SameQuaternion(res.back.quaternion, arg.pose.quaternion)
       \/ SameQuaternion(res.back.quaternion, Negated(arg.pose.quaternion))

\* on the equator at 90 degrees east the identity comes back as (0, 0, 0, -1)
C21_Negated ==
  /\ op = "roundTrip"
  /\ arg.lat = 0 /\ arg.lon = 90
  /\ res.branch # "trace"
  /\ SameQuaternion(res.back.quaternion, Negated(arg.pose.quaternion))
  /\ ~SameQuaternion(res.back.quaternion, arg.pose.quaternion)

\* in the trace branch the two quaternions agree
C21_TraceAgrees ==
  /\ op = "conjugateQuaternion"
  /\ res.branch = "trace"
  /\ SameQuaternion(res.transposed, res.conjugated)

----------------------------------------------------------------------------
(* slerp on its own, called twice on the same pair of quaternions           *)

InitSlerp ==
  /\ op = "quaternions"
  /\ \E qa \in SlerpNames \ {"half"}, qb \in SlerpNames, sign \in InterpSigns :
       arg = Call("SlerpInput", <<qa, qb, sign>>)
  /\ res = Undefined
  /\ crs = BuiltinCRS
  /\ heap = <<>>

\* slerp(qa, qb, quarters / 4); the call before it is kept beside its result
Slerp(quarters) ==
  /\ op \in {"quaternions", "slerp"}
  /\ op = "slerp" => IsUndefined(res.before)
  /\ op' = "slerp"
  /\ res' = [quarters |-> quarters,
             q |-> Call("slerp", <<arg.qa, arg.qb,
                                   Call("FDiv", <<Call("FromInt", <<quarters>>),
                                                  Call("FromInt", <<4>>)>>)>>),
             cosHalfTheta |-> Call("slerpCosHalfTheta", <<arg.qa, arg.qb>>),
             branch |-> Call("slerpBranch", <<arg.qa, arg.qb>>),
             before |-> IF op = "slerp"
                        THEN [quarters |-> res.quarters, q |-> res.q]
                        ELSE Undefined]
  /\ UNCHANGED <<arg, crs, heap>>

NextSlerp == \E quarters \in SlerpQuarters : Slerp(quarters)

SpecSlerp == InitSlerp /\ [][NextSlerp]_vars

\* dot(qa, qb)
Dot(qa, qb) ==
  FAdd(FAdd(FAdd(FMul(qa.w, qb.w), FMul(qa.x, qb.x)), FMul(qa.y, qb.y)), FMul(qa.z, qb.z))

\* qa, negated where dot(qa, qb) is negative
Shorter(qa, qb) == IF FLt(Dot(qa, qb), F0) THEN Negated(qa) ELSE qa

\* a * qa + b * qb, component by component
Weighted(a, qa, b, qb) ==
  Quat(FAdd(FMul(qa.x, a), FMul(qb.x, b)), FAdd(FMul(qa.y, a), FMul(qb.y, b)),
       FAdd(FMul(qa.z, a), FMul(qb.z, b)), FAdd(FMul(qa.w, a), FMul(qb.w, b)))

\* C22: slerp takes cosHalfTheta = dot(qa, qb); where it is negative it
\* negates one quaternion component by component, so that its later branch
\* tests and weights read a non-negative cosHalfTheta; where |cosHalfTheta| >= 1
\* it returns qa unchanged, whatever t is.
C22_ShorterArc ==
  op = "slerp" =>
    LET dot == Dot(arg.qa, arg.qb)
        theta == FAcos(FAbs(dot))
        sine == FSqrt(FSub(F1, FMul(FAbs(dot), FAbs(dot))))
        t == FDiv(FromInt(res.quarters), FromInt(4))
    IN /\ FGe(res.cosHalfTheta, F0)
       /\ FEq(res.cosHalfTheta, FAbs(dot))
       /\ res.branch = "coincident" <=> FGe(FAbs(dot), F1)
       /\ res.branch = "coincident" => res.q = arg.qa
       /\ res.branch = "general" =>
            res.q = Weighted(FDiv(FSin(FMul(FSub(F1, t), theta)), sine), Shorter(arg.qa, arg.qb),
                             FDiv(FSin(FMul(t, theta)), sine), arg.qb)

\* a quarter of the way from the identity to the negative of a quarter turn,
\* the identity was negated
C22_Witness ==
  /\ op = "slerp"
  /\ res.quarters = 1
  /\ res.branch = "general"
  /\ FLt(Dot(arg.qa, arg.qb), F0)
  /\ arg.qa = QuatNamed("identity")
  /\ FLt(res.q.w, F0)

\* opposite quaternions are coincident, and qa came back unchanged at t = 1
C22_WitnessCoincident ==
  /\ op = "slerp"
  /\ res.quarters = 4
  /\ FLt(Dot(arg.qa, arg.qb), F0)
  /\ res.branch = "coincident"
  /\ res.q = arg.qa
  /\ arg.qa # arg.qb


\* x*x + y*y + z*z + w*w is 1 to the last bit
ExactlyUnit(q) ==
  FEq(FAdd(FAdd(FAdd(FMul(q.x, q.x), FMul(q.y, q.y)), FMul(q.z, q.z)), FMul(q.w, q.w)), F1)

\* C23: where |cosHalfTheta| < 1 and sinHalfTheta < 0.001 slerp returns the
\* linear blend 0.5 * qa' + 0.5 * qb of the components, with no normalization
\* after it; in every other case below 1 it returns the weighted sum with the
\* weights sin((1 - t) * theta) / sin(theta) and sin(t * theta) / sin(theta).
C23_NearParallel ==
  op = "slerp" =>
    LET c == FAbs(Dot(arg.qa, arg.qb))
        theta == FAcos(c)
        sine == FSqrt(FSub(F1, FMul(c, c)))
        t == FDiv(FromInt(res.quarters), FromInt(4))
        qa == Shorter(arg.qa, arg.qb)
    IN FLt(c, F1) =>
         IF FLt(sine, FMilli)
         THEN /\ res.branch = "near-parallel"
              /\ res.q = Weighted(FHalf, qa, FHalf, arg.qb)
         ELSE /\ res.branch = "general"
              /\ res.q = Weighted(FDiv(FSin(FMul(FSub(F1, t), theta)), sine), qa,
                                  FDiv(FSin(FMul(t, theta)), sine), arg.qb)

\* between the identity and a quaternion 0.0005 rad of half angle away the
\* blend came back, shorter than 1
C23_Witness ==
  /\ op = "slerp"
  /\ res.branch = "near-parallel"
  /\ arg.qa = QuatNamed("identity")
  /\ res.q = Weighted(FHalf, arg.qa, FHalf, arg.qb)
  /\ ~ExactlyUnit(res.q)
  /\ ExactlyUnit(arg.qa)

\* the general branch at a quarter of the way
C23_WitnessGeneral ==
  /\ op = "slerp"
  /\ res.branch = "general"
  /\ res.quarters = 1
  /\ res.q # arg.qa
  /\ res.q # arg.qb

\* C24: in the coincident and near-parallel branches two calls of slerp on
\* the same quaternions with different t return the same quaternion
C24_SlerpIgnoresT ==
  (op = "slerp" /\ ~IsUndefined(res.before) /\ res.branch # "general") =>
    res.q = res.before.q

\* near-parallel quaternions at t = 0 and t = 1
C24_Witness ==
  /\ op = "slerp"
  /\ ~IsUndefined(res.before)
  /\ res.branch = "near-parallel"
  /\ res.before.quarters = 0
  /\ res.quarters = 4
  /\ res.q = res.before.q
  /\ res.q = Weighted(FHalf, Shorter(arg.qa, arg.qb), FHalf, arg.qb)

\* the general branch follows t
C24_GeneralFollowsT ==
  /\ op = "slerp"
  /\ ~IsUndefined(res.before)
  /\ res.branch = "general"
  /\ res.before.quarters = 0
  /\ res.quarters = 4
  /\ res.q # res.before.q

----------------------------------------------------------------------------
(* interpolatePose called twice on the same two poses                       *)

InterpolateTs == {0, 1}

InitInterpolateTwice ==
  /\ op = "poses"
  /\ \E place \in InterpPlaces, qb \in InterpQuats, sign \in InterpSigns :
       arg = Call("InterpInput", <<place, "identity", qb, sign, 0>>)
  /\ res = Undefined
  /\ crs = BuiltinCRS
  /\ heap = <<>>

\* interpolatePose(a, b, t); the call before it is kept beside its result
InterpolatePoseAt(t) ==
  /\ op \in {"poses", "interpolatePose"}
  /\ op = "interpolatePose" => IsUndefined(res.before)
  /\ op' = "interpolatePose"
  /\ arg' = [arg EXCEPT !.t = IF t = 0 THEN F0 ELSE F1]
  /\ res' = [t |-> t,
             before |-> IF op = "interpolatePose"
                        THEN [t |-> res.t, q |-> res.q, pose |-> res.pose]
                        ELSE Undefined]
              @@ Call("InterpolateCall", <<arg.a, arg.b, t>>)
  /\ UNCHANGED <<crs, heap>>

NextInterpolateTwice == \E t \in InterpolateTs : InterpolatePoseAt(t)

SpecInterpolateTwice == InitInterpolateTwice /\ [][NextInterpolateTwice]_vars

\* two calls were made and slerp did not take its general branch
TwiceOffGeneral ==
  op = "interpolatePose" /\ ~IsUndefined(res.before) /\ res.branch # "general"

C24_TurnsWithPosition ==
  /\ TwiceOffGeneral
  /\ res.before.t = 0 /\ res.t = 1
  /\ res.branch = "near-parallel"
  /\ res.q = res.before.q
  /\ ~SameQuaternion(res.pose.quaternion, res.before.pose.quaternion)

----------------------------------------------------------------------------
(* the UTM zone of a pose                                                   *)

InitUTMPose ==
  /\ op = "pose"
  /\ \E lat \in UTMPoseLats, n \in UTMLons : arg = Call("UTMPoseInput", <<lat, n>>)
  /\ res = Undefined
  /\ crs = BuiltinCRS
  /\ heap = <<>>

\* getUTMZoneEPSG(pose.position.lon, northern)
GetUTMZoneEPSGAt(northern) ==
  /\ op = "pose"
  /\ op' = "getUTMZoneEPSG"
  /\ res' = [northern |-> northern,
             epsg |-> Call("getUTMZoneEPSG", <<arg.pose.position.lon, northern>>)]
  /\ UNCHANGED <<arg, crs, heap>>

GetUTMZoneForGeoPose ==
  /\ op = "pose"
  /\ op' = "getUTMZoneForGeoPose"
  /\ res' = [northern |-> arg.north, epsg |-> Call("getUTMZoneForGeoPose", <<arg.pose>>)]
  /\ UNCHANGED <<arg, crs, heap>>

\* new GeoPoseBasic(pose).getUTMZone()
GetUTMZone ==
  /\ op = "pose"
  /\ op' = "getUTMZone"
  /\ res' = [northern |-> arg.north,
             epsg |-> Call("getUTMZone", <<newGeoPoseBasic(arg.pose)>>)]
  /\ UNCHANGED <<arg, crs, heap>>

NextUTMPose ==
  \/ \E northern \in BOOLEAN : GetUTMZoneEPSGAt(northern)
  \/ GetUTMZoneForGeoPose
  \/ GetUTMZone

SpecUTMPose == InitUTMPose /\ [][NextUTMPose]_vars

UTMOps == {"getUTMZoneEPSG", "getUTMZoneForGeoPose", "getUTMZone"}

\* the codes of the UTM zones 1..60 of a hemisphere
UTMCodes(northern) ==
  {"EPSG:" \o ToString((IF northern THEN 32600 ELSE 32700) + zone) : zone \in 1..60}

\* C26: for every longitude in [-180, 180] and either hemisphere
\* getUTMZoneEPSG returns the code of an existing UTM zone, its base plus a
\* zone number in 1..60, and so do getUTMZoneForGeoPose and
\* GeoPoseBasic.getUTMZone, which pass lat >= 0 as the northern flag.
C26_ExistingZone ==
  op \in UTMOps => res.epsg \in UTMCodes(res.northern)

\* what holds: the zone is in 1..60 for every longitude in [-180, 180)
C26_ExistingZoneBelow180 ==
  (op \in UTMOps /\ arg.tenThousandths < 1800000) => res.epsg \in UTMCodes(res.northern)

\* longitude 180 north of the equator gave EPSG:32661, a zone 61
C26_Zone61 ==
  /\ op = "getUTMZoneForGeoPose"
  /\ arg.tenThousandths = 1800000
  /\ res.northern
  /\ res.epsg = "EPSG:32661"

\* longitude 180 on a GeoPoseBasic south of the equator gave EPSG:32761
C26_Zone61South ==
  /\ op = "getUTMZone"
  /\ arg.tenThousandths = 1800000
  /\ ~res.northern
  /\ res.epsg = "EPSG:32761"

----------------------------------------------------------------------------
(* getRelativePose from two poses standing at the same position             *)

InitRelativeTwice ==
  /\ op = "poses"
  /\ \E o \in LocalOrigins, dlat \in {0, -100} : arg = Call("RelativeInput", <<o, dlat>>)
  /\ res = Undefined
  /\ crs = BuiltinCRS
  /\ heap = <<>>

\* getRelativePose(from, to) or new GeoPoseBasic(from).getRelativePoseTo(to),
\* from at arg.position with the quaternion named qn; the call before it is
\* kept beside its result
GetRelativePoseFrom(f, qn) ==
  /\ op \in {"poses", "getRelativePose", "getRelativePoseTo"}
  /\ op # "poses" => IsUndefined(res.before)
  /\ op' = f
  /\ res' = [before |-> IF op = "poses" THEN Undefined
                        ELSE [from |-> res.from, relative |-> res.relative]]
              @@ Call("RelativeCall", <<f, arg.position, qn, arg.to>>)
  /\ UNCHANGED <<arg, crs, heap>>

NextRelativeTwice ==
  \E f \in RelativeFunctions, qn \in RelativeFroms : GetRelativePoseFrom(f, qn)

SpecRelativeTwice == InitRelativeTwice /\ [][NextRelativeTwice]_vars

\* C27: getRelativePose(from, to) does not depend on from's orientation: two
\* from poses at the same position with different quaternions get the same
\* result, member for member, from getRelativePose and from
\* GeoPoseBasic.getRelativePoseTo alike.
C27_IgnoresFromOrientation ==
  (op \in RelativeFunctions /\ ~IsUndefined(res.before)) =>
    /\ res.from.position = res.before.from.position
    /\ res.relative = res.before.relative

\* from the identity and then from a quarter turn of yaw, through the function
\* and then through the method: the same east, north, up and orientation
C27_Witness ==
  /\ op = "getRelativePoseTo"
  /\ ~IsUndefined(res.before)
  /\ res.before.from.quaternion = QuatNamed("identity")
  /\ res.from.quaternion = QuatNamed("yaw90")
  /\ res.relative = res.before.relative
  /\ ~IsZero(res.relative.position.up)
  /\ ~IsZero(res.relative.orientation.w)

----------------------------------------------------------------------------
(* GeoPoseBasic: what a mutator leaves alone                                *)

InitFrame ==
  /\ op = "basic"
  /\ \E pq \in BasicPoseQuats, aq \in BasicArgQuats : arg = Call("FrameInput", <<pq, aq>>)
  /\ res = Undefined
  /\ crs = BuiltinCRS
  /\ heap = <<>>

\* new GeoPoseBasic(pose); res is the instance
ConstructFrame ==
  /\ op = "basic"
  /\ op' = "new"
  /\ res' = Call("BasicCall", <<"new", Undefined, arg>>)
  /\ UNCHANGED <<arg, crs, heap>>

MutatePosition(m) ==
  /\ op = "new"
  /\ op' = m
  /\ res' = Call("PositionCall", <<m, res, arg>>)
  /\ UNCHANGED <<arg, crs, heap>>

MutateOrientation(m) ==
  /\ op = "new"
  /\ op' = m
  /\ res' = Call("BasicCall", <<m, res, arg>>)
  /\ UNCHANGED <<arg, crs, heap>>

NextFrame ==
  \/ ConstructFrame
  \/ \E m \in PositionMutators : MutatePosition(m)
  \/ \E m \in OrientationMutators : MutateOrientation(m)

SpecFrame == InitFrame /\ [][NextFrame]_vars

\* the position after the position mutator m, given the one before it
MovedPosition(m, position) ==
  CASE m = "set lat" -> [position EXCEPT !.lat = arg.position.lat]
    [] m = "set lon" -> [position EXCEPT !.lon = arg.position.lon]
    [] m = "set h" -> [position EXCEPT !.h = arg.position.h]
    [] OTHER -> arg.position

\* C28: assigning lat, lon or h, or calling setPosition or
\* setPositionLatLonHeight, changes the named position components only and
\* leaves the stored quaternion as it was; assigning qx..qw or calling
\* setQuaternionOrientation, setOrientation, setYPROrientation,
\* rotateByQuaternion or normalizeOrientation leaves lat, lon and h as they were.
C28_FrameConditions ==
  [][/\ (op = "new" /\ op' \in PositionMutators) =>
          /\ res'._quaternion = res._quaternion
          /\ res'._position = MovedPosition(op', res._position)
     /\ (op = "new" /\ op' \in OrientationMutators) =>
          res'._position = res._position]_vars

\* lat was assigned on a pose whose quaternion has length 2: lon, h and the
\* quaternion are those of the constructor's argument
C28_Witness ==
  /\ op = "set lat"
  /\ res._position.lat = arg.position.lat
  /\ res._position.lat # arg.pose.position.lat
  /\ res._position.lon = arg.pose.position.lon
  /\ res._position.h = arg.pose.position.h
  /\ res._quaternion = QuatNamed("double")

\* setYPROrientation replaced the quaternion and kept the position
C28_WitnessYPR ==
  /\ op = "setYPROrientation"
  /\ res._quaternion # arg.pose.quaternion
  /\ res._position = arg.pose.position

----------------------------------------------------------------------------
(* GeoPoseBasic: which form of a record a JSON constructor builds from      *)

DispatchOps == {"fromGeoPoseJSON", "fromGeoPoseYPRJSON", "fromJSON", "fromObject"}

InitDispatch ==
  /\ op = "text"
  /\ \E form \in JsonForms, site \in JsonSites, kind \in JsonKinds :
       arg = Call("JsonText", <<form, site, kind>>)
  /\ res = Undefined
  /\ crs = BuiltinCRS
  /\ heap = <<>>

\* GeoPoseBasic.f(text), and for fromObject GeoPoseBasic.fromObject(value) on
\* the value of a well-formed text
FromRecord(f) ==
  /\ op = "text"
  /\ f = "fromObject" => arg.wellFormed
  /\ op' = f
  /\ res' = IF f = "fromObject" THEN Call("fromObject", <<arg.value>>) ELSE Call(f, <<arg>>)
  /\ UNCHANGED <<arg, crs, heap>>

NextDispatch == \E f \in DispatchOps : FromRecord(f)

SpecDispatch == InitDispatch /\ [][NextDispatch]_vars

\* the instance new GeoPoseBasic builds from the quaternion of the record
BuiltFromQuaternion ==
  /\ res # JNull
  /\ res._position = JObj(arg.value.v.position.v)
  /\ res._quaternion = JObj(arg.value.v.quaternion.v)

\* the instance fromYPR builds from the angles of the record
BuiltFromAngles ==
  /\ res # JNull
  /\ res._position = JObj(arg.value.v.position.v)
  /\ LET a == arg.value.v.angles.v
         q == yprToQuaternion([position |-> arg.value.v.position,
                               angles |-> [yaw |-> a.yaw.v, pitch |-> a.pitch.v,
                                           roll |-> a.roll.v]]).quaternion
     IN res._quaternion = JObj([x |-> JNum(q.x), y |-> JNum(q.y), z |-> JNum(q.z),
                                w |-> JNum(q.w)])

\* the text is well formed and its record has a numeric position
Positioned == arg.wellFormed /\ HasPosition(arg.value)

\* C30: fromGeoPoseJSON accepts only records with a numeric quaternion and
\* returns null on a record that carries angles only; fromGeoPoseYPRJSON
\* accepts only records with numeric angles and returns null on a record that
\* carries a quaternion only; fromJSON and fromObject try the quaternion
\* first, so that a record with both is built from the quaternion and its
\* angles are ignored.
C30_ModeDispatch ==
  /\ op = "fromGeoPoseJSON" =>
       IF Positioned /\ HasQuaternion(arg.value) THEN BuiltFromQuaternion ELSE res = JNull
  /\ op = "fromGeoPoseYPRJSON" =>
       IF Positioned /\ HasAngles(arg.value) THEN BuiltFromAngles ELSE res = JNull
  /\ op \in {"fromJSON", "fromObject"} =>
       IF Positioned /\ HasQuaternion(arg.value) THEN BuiltFromQuaternion
       ELSE IF Positioned /\ HasAngles(arg.value) THEN BuiltFromAngles
       ELSE res = JNull

\* a record with a quaternion and angles that disagree went through fromJSON
\* and the instance carries the quaternion of the record
C30_Witness ==
  /\ op = "fromJSON"
  /\ Positioned /\ HasQuaternion(arg.value) /\ HasAngles(arg.value)
  /\ BuiltFromQuaternion
  /\ ~BuiltFromAngles

\* a record with angles only was refused by fromGeoPoseJSON
C30_WitnessAnglesOnly ==
  /\ op = "fromGeoPoseJSON"
  /\ Positioned /\ HasAngles(arg.value)
  /\ "quaternion" \notin DOMAIN arg.value.v
  /\ res = JNull

\* a record with a quaternion only was refused by fromGeoPoseYPRJSON
C30_WitnessQuaternionOnly ==
  /\ op = "fromGeoPoseYPRJSON"
  /\ Positioned /\ HasQuaternion(arg.value)
  /\ "angles" \notin DOMAIN arg.value.v
  /\ res = JNull

----------------------------------------------------------------------------
(* validateGeoPose                                                          *)

InitValidate ==
  /\ op = "pose"
  /\ \E site \in ValidateSites, kind \in ValidateKinds :
       arg = Call("ValidateInput", <<site, kind>>)
  /\ res = Undefined
  /\ crs = BuiltinCRS
  /\ heap = <<>>

ValidateGeoPose ==
  /\ op = "pose"
  /\ op' = "validateGeoPose"
  /\ res' = Call("validateGeoPose", <<arg.geoPose>>)
  /\ UNCHANGED <<arg, crs, heap>>

NextValidate == ValidateGeoPose

SpecValidate == InitValidate /\ [][NextValidate]_vars

\* the member name of the object called part of the pose, undefined where the
\* pose has no such object
Member(part, name) ==
  LET top == arg.geoPose
  IN IF IsUndefined(top) \/ top.t # "object" \/ part \notin DOMAIN top.v THEN Undefined
     ELSE IF top.v[part].t # "object" \/ name \notin DOMAIN top.v[part].v THEN Undefined
     ELSE top.v[part].v[name]

\* the position and quaternion objects are present
ObjectsPresent ==
  /\ ~IsUndefined(arg.geoPose)
  /\ arg.geoPose.t = "object"
  /\ \A part \in {"position", "quaternion"} :
       part \in DOMAIN arg.geoPose.v /\ arg.geoPose.v[part].t = "object"

\* v is missing, not a number or not finite
NotFiniteNumber(v) == IsUndefined(v) \/ v.t # "number" \/ ~IsFinite(v.v)

\* v is a number outside [-bound, bound]
OutOfRange(v, bound) ==
  /\ ~IsUndefined(v)
  /\ v.t = "number"
  /\ FLt(v.v, FromInt(-bound)) \/ FGt(v.v, FromInt(bound))

\* the four components are numbers whose magnitude is more than 0.001 from 1
OffUnit ==
  LET x == Member("quaternion", "x")
      y == Member("quaternion", "y")
      z == Member("quaternion", "z")
      w == Member("quaternion", "w")
      IsNumber(v) == ~IsUndefined(v) /\ v.t = "number"
  IN /\ IsNumber(x) /\ IsNumber(y) /\ IsNumber(z) /\ IsNumber(w)
     /\ FGt(FAbs(FSub(FSqrt(FAdd(FAdd(FAdd(FMul(x.v, x.v), FMul(y.v, y.v)), FMul(z.v, z.v)),
                                 FMul(w.v, w.v))), F1)), FMilli)

\* a case in which validateGeoPose is to report an error
Invalid ==
  \/ OutOfRange(Member("position", "lat"), 90)
  \/ OutOfRange(Member("position", "lon"), 180)
  \/ \E name \in {"lat", "lon", "h"} : NotFiniteNumber(Member("position", name))
  \/ \E name \in {"x", "y", "z", "w"} : NotFiniteNumber(Member("quaternion", name))
  \/ OffUnit

C29_WitnessValid ==
  /\ op = "validateGeoPose"
  /\ \/ arg.site = "w" /\ arg.kind = "1.0009"
     \/ arg.site = "lon" /\ arg.kind = "180"
  /\ ~Invalid
  /\ res.valid
  /\ res.errors = <<>>

\* a latitude of NaN is reported as not finite, a latitude of Infinity as out
\* of range
C29_WitnessNaN ==
  /\ op = "validateGeoPose"
  /\ arg.site = "lat" /\ arg.kind = "NaN"
  /\ res.errors = <<"position.lat must be a finite number">>

----------------------------------------------------------------------------
(* multiplyQuaternions and conjugateQuaternion: the laws of the product     *)

InitAlgebra ==
  /\ op = "quaternions"
  /\ \E a \in AlgebraNames, b \in AlgebraNames, c \in {"half", "skew"} :
       arg = Call("AlgebraInput", <<a, b, c>>)
  /\ res = Undefined
  /\ crs = BuiltinCRS
  /\ heap = <<>>

\* multiply(identity, a) and multiply(a, identity)
MultiplyByIdentity ==
  /\ op = "quaternions"
  /\ op' = "identity"
  /\ res' = Call("ProductPair", <<"identity", arg>>)
  /\ UNCHANGED <<arg, crs, heap>>

\* multiply(a, b) and multiply(b, a)
MultiplyBothWays ==
  /\ op = "quaternions"
  /\ op' = "commuted"
  /\ res' = Call("ProductPair", <<"commuted", arg>>)
  /\ UNCHANGED <<arg, crs, heap>>

\* multiply(multiply(a, b), c) and multiply(a, multiply(b, c))
MultiplyThree ==
  /\ op = "quaternions"
  /\ op' = "associated"
  /\ res' = Call("ProductPair", <<"associated", arg>>)
  /\ UNCHANGED <<arg, crs, heap>>

\* multiply(a, conjugate(a)) and multiply(conjugate(a), a)
MultiplyByConjugate ==
  /\ op = "quaternions"
  /\ op' = "conjugated"
  /\ res' = Call("ProductPair", <<"conjugated", arg>>)
  /\ UNCHANGED <<arg, crs, heap>>

NextAlgebra ==
  MultiplyByIdentity \/ MultiplyBothWays \/ MultiplyThree \/ MultiplyByConjugate

SpecAlgebra == InitAlgebra /\ [][NextAlgebra]_vars

\* the quaternions are equal, each component within 1e-12
Equal12(q, e) ==
  /\ Within(q.x, e.x, Dec(1, <<1>>, 12))
  /\ Within(q.y, e.y, Dec(1, <<1>>, 12))
  /\ Within(q.z, e.z, Dec(1, <<1>>, 12))
  /\ Within(q.w, e.w, Dec(1, <<1>>, 12))

\* x * x + y * y + z * z + w * w
Norm2(q) == FAdd(FAdd(FAdd(FMul(q.x, q.x), FMul(q.y, q.y)), FMul(q.z, q.z)), FMul(q.w, q.w))

\* C25: multiplyQuaternions is the Hamilton product: (0, 0, 0, 1) is neutral
\* on both sides, the product is associative and not commutative, and the
\* product of q and conjugate(q), in either order, is (0, 0, 0, x*x + y*y +
\* z*z + w*w), so that the conjugate of a unit quaternion is its inverse.
\* Equalities are taken to 1e-12 in each component.
C25_HamiltonProduct ==
  /\ op = "identity" => Equal12(res.left, arg.a) /\ Equal12(res.right, arg.a)
  /\ op = "associated" => Equal12(res.left, res.right)
  /\ op = "conjugated" =>
       /\ Equal12(res.left, Quat(F0, F0, F0, Norm2(arg.a)))
       /\ Equal12(res.right, Quat(F0, F0, F0, Norm2(arg.a)))
       /\ Within(Norm2(arg.a), F1, Dec(1, <<1>>, 12)) =>
            Equal12(res.left, identityQuaternion)
  /\ (op = "commuted" /\ arg.a = QuatNamed("yaw90") /\ arg.b = QuatNamed("pitch90")) =>
       ~Equal12(res.left, res.right)

\* a quaternion of no particular length times its conjugate is its squared
\* length, 16.14
C25_Witness ==
  /\ op = "conjugated"
  /\ ~Within(Norm2(arg.a), F1, FMilli)
  /\ Equal12(res.left, Quat(F0, F0, F0, Norm2(arg.a)))
  /\ Within(res.left.w, Dec(1, <<16, 1400>>, 4), Dec(1, <<1>>, 12))

\* a quarter turn of yaw and one of pitch do not commute: the products differ
\* in x and z
C25_NotCommutative ==
  /\ op = "commuted"
  /\ arg.a = QuatNamed("yaw90") /\ arg.b = QuatNamed("pitch90")
  /\ Within(res.left.x, FNeg(res.right.x), Dec(1, <<1>>, 12))
  /\ Within(res.left.x, FNeg(FHalf), Dec(1, <<1>>, 12))

\* three different quaternions, none the identity, were multiplied both ways
C25_WitnessAssociated ==
  /\ op = "associated"
  /\ arg.a = QuatNamed("yaw90") /\ arg.b = QuatNamed("pitch90") /\ arg.c = AlgebraNamed("skew")
  /\ Equal12(res.left, res.right)

Init == InitJson
Next == NextJson
Spec == Init /\ [][Next]_vars
====
